---- MODULE Spec2Model ----
(***************************************************************************)
(* aden_tools: the Twitter/X and Google Docs tool registrations.           *)
(*                                                                         *)
(* One tool invocation is modelled as a sequential handler that resolves   *)
(* a credential, builds a client, issues zero, one or two blocking HTTP    *)
(* requests and returns a result mapping or raises.  The handler yields    *)
(* at every HTTP call: the upstream (or the transport) answers in a        *)
(* separate step.                                                          *)
(*                                                                         *)
(* Python values are tagged records; a Python str is a sequence of text    *)
(* fragments, so that f-string formatting is concatenation and "contains"  *)
(* is computable.                                                          *)
(***************************************************************************)
EXTENDS Integers, Sequences, FiniteSets, TLC

VARIABLES
    environ,      \* os.environ: variable name -> PyNone (unset) or a str
    credentials,  \* the CredentialStoreAdapter given to register_tools, or PyNone
    pc,           \* "idle" | "waiting" (blocked in an HTTP call) | "done"
    call,         \* the running invocation: [tool, args]
    token,        \* outcome of _get_token() in the running invocation
    client,       \* the client object built by _get_client(): [token, me_id]
    pending,      \* the HTTP call the handler is blocked in: [k, req]
    sent,         \* the HTTP requests issued by the running invocation
    received,     \* the upstream outcomes of those requests
    result,       \* what the invocation returned or raised
    upstream,     \* what the third-party services hold: [documents, tweets]
    previous,     \* the last invocation a caller kept: [call, token, sent, result]
    shared        \* one _TwitterClient used by several callers: [self, threads, requests]

vars == <<environ, credentials, pc, call, token, client, pending, sent, received, result,
          upstream, previous, shared>>

----------------------------------------------------------------------------
(* Python values *)

PyNone == [t |-> "none"]
PyStr(fragments) == [t |-> "str", v |-> fragments]
PyInt(n) == [t |-> "int", v |-> n]
PyBool(b) == [t |-> "bool", v |-> b]
PyFloat(x) == [t |-> "float", v |-> x]
PyDict(f) == [t |-> "dict", v |-> f]
PyList(s) == [t |-> "list", v |-> s]

EmptyDict == [key \in {} |-> PyNone]

\* a one-fragment str; the empty string has no fragment
Text(s) == IF s = "" THEN PyStr(<<>>) ELSE PyStr(<<s>>)

\* isinstance(x, str)
IsStr(x) == x.t = "str"

\* isinstance(x, dict)
IsDict(x) == x.t = "dict"

\* isinstance(x, list)
IsList(x) == x.t = "list"

\* bool(x)
Truthy(x) ==
    CASE x.t = "none" -> FALSE
      [] x.t = "str"  -> x.v # <<>>
      [] x.t = "int"  -> x.v # 0
      [] x.t = "float" -> x.v # 0
      [] x.t = "bool" -> x.v
      [] x.t = "dict" -> DOMAIN x.v # {}
      [] x.t = "list" -> x.v # <<>>

\* d.get(key, default) on the mapping of a dict
DictGet(f, key, default) == IF key \in DOMAIN f THEN f[key] ELSE default

\* a call either returns a value or raises
Ok(v) == [exc |-> "none", val |-> v]
Raise(e) == [exc |-> e, val |-> PyNone]
Raised(o) == o.exc # "none"

\* str(n) for the integers that are formatted into messages
IntStr(n) ==
    CASE n = 200 -> "200" [] n = 201 -> "201" [] n = 202 -> "202" [] n = 204 -> "204"
      [] n = 400 -> "400" [] n = 401 -> "401" [] n = 403 -> "403" [] n = 404 -> "404"
      [] n = 429 -> "429" [] n = 500 -> "500" [] n = 503 -> "503"
      [] OTHER -> "<int>"

\* the fragments of f"{x}"
Format(x) ==
    CASE x.t = "str"  -> x.v
      [] x.t = "none" -> <<"None">>
      [] x.t = "int"  -> <<IntStr(x.v)>>
      [] x.t = "bool" -> IF x.v THEN <<"True">> ELSE <<"False">>
      [] OTHER        -> <<"<repr>">>

\* str.lower() of one fragment
LowerFragment(w) ==
    CASE w = "Invalid" -> "invalid"
      [] w = "Rate" -> "rate"
      [] w = "Document" -> "document"
      [] w = "Insufficient" -> "insufficient"
      [] w = "Forbidden" -> "forbidden"
      [] w = "Google" -> "google"
      [] w = "Twitter" -> "twitter"
      [] w = "API" -> "api"
      [] w = "Network" -> "network"
      [] w = "Request" -> "request"
      [] w = "BULLET" -> "bullet"
      [] w = "Bullet" -> "bullet"
      [] w = "NUMBERED" -> "numbered"
      [] w = "Numbered" -> "numbered"
      [] w = "PDF" -> "pdf"
      [] w = "DOCX" -> "docx"
      [] OTHER -> w

----------------------------------------------------------------------------
(* JSON texts: json.loads / response.json() over the texts of the model *)

SA_TOKEN == "{\"access_token\": \"tokJ\"}"
SA_NOTOKEN == "{\"type\": \"service_account\"}"
JSON_EMPTY_OBJECT == "{}"
JSON_EMPTY_ARRAY == "[]"
JSON_MALFORMED == "{not json"
REQUESTS_ONE == "[{\"insertText\": {\"location\": {\"index\": 1}, \"text\": \"hi\"}}]"
TW_DATA == "{\"data\": {\"id\": \"42\", \"text\": \"hello\", \"deleted\": true, \"liked\": true, \"retweeted\": true, \"following\": true}}"
TW_ME_OTHER == "{\"data\": {\"id\": \"43\"}}"
TW_ERRORS == "{\"errors\": [{\"message\": \"Unauthorized\"}]}"
TW_DETAIL == "{\"title\": \"Error\", \"detail\": \"Could not find resource\"}"
GD_DOC == "{\"documentId\": \"d1\", \"title\": \"T\", \"body\": {\"content\": [{\"endIndex\": 12}]}}"
GD_REPLIES == "{\"documentId\": \"d1\", \"replies\": [{\"replaceAllText\": {\"occurrencesChanged\": 2}}]}"
GD_REPLIES_MIXED == "{\"replies\": [{\"replaceAllText\": {\"occurrencesChanged\": 1}}, {\"replaceAllText\": {}}, {}, {\"replaceAllText\": {\"occurrencesChanged\": 2}}]}"
GD_ERROR == "{\"error\": {\"code\": 400, \"message\": \"Bad request\"}}"
HTML_BODY == "<html>Bad Gateway</html>"
EMPTY_BODY == ""

\* the documents an upstream that stores them holds: at most MaxDocuments, with these titles
MaxDocuments == 2
Titles == {"T", "", "Q3 plan"}
DocId(i) == CASE i = 1 -> "d1" [] i = 2 -> "d2" [] i = 3 -> "d3" [] OTHER -> "d4"
DocIds == {DocId(i) : i \in 1..MaxDocuments}

\* the body in which the Docs API returns the document `document_id` titled `title`
DocumentJson(document_id, title) ==
    "{\"documentId\": \"" \o document_id \o "\", \"title\": \"" \o title \o "\"}"

\* json.loads of such a body
ParsedDocument(text) ==
    LET Parsed(doc) == PyDict([documentId |-> Text(doc[1]), title |-> Text(doc[2])])
    IN  Parsed(CHOOSE doc \in DocIds \X Titles : DocumentJson(doc[1], doc[2]) = text)

\* the endIndex of the last element of a document grows up to MaxEnd under other writers
MaxEnd == 6

\* the body of a document whose only element ends at n
EndBody(n) == "{\"body\": {\"content\": [{\"endIndex\": " \o ToString(n) \o "}]}}"

\* json.loads(text): Ok(value), or Raise("JSONDecodeError") for a text that is not JSON
json_loads(text) ==
    CASE text = SA_TOKEN -> Ok(PyDict([access_token |-> Text("tokJ")]))
      [] text = SA_NOTOKEN -> Ok(PyDict([type |-> Text("service_account")]))
      [] text = JSON_EMPTY_OBJECT -> Ok(PyDict(EmptyDict))
      [] text = JSON_EMPTY_ARRAY -> Ok(PyList(<<>>))
      [] text = REQUESTS_ONE ->
            Ok(PyList(<<PyDict([insertText |-> PyDict(
                [location |-> PyDict([index |-> PyInt(1)]), text |-> Text("hi")])])>>))
      [] text = TW_DATA ->
            Ok(PyDict([data |-> PyDict(
                [id |-> Text("42"), text |-> Text("hello"), deleted |-> PyBool(TRUE),
                 liked |-> PyBool(TRUE), retweeted |-> PyBool(TRUE),
                 following |-> PyBool(TRUE)])]))
      [] text = TW_ME_OTHER -> Ok(PyDict([data |-> PyDict([id |-> Text("43")])]))
      [] text = TW_ERRORS ->
            Ok(PyDict([errors |-> PyList(<<PyDict([message |-> Text("Unauthorized")])>>)]))
      [] text = TW_DETAIL ->
            Ok(PyDict([title |-> Text("Error"), detail |-> Text("Could not find resource")]))
      [] text = GD_DOC ->
            Ok(PyDict([documentId |-> Text("d1"), title |-> Text("T"),
                       body |-> PyDict([content |-> PyList(<<PyDict([endIndex |-> PyInt(12)])>>)])]))
      [] text = GD_REPLIES ->
            Ok(PyDict([documentId |-> Text("d1"),
                       replies |-> PyList(<<PyDict([replaceAllText |->
                                      PyDict([occurrencesChanged |-> PyInt(2)])])>>)]))
      [] text = GD_REPLIES_MIXED ->
            Ok(PyDict([replies |-> PyList(<<
                PyDict([replaceAllText |-> PyDict([occurrencesChanged |-> PyInt(1)])]),
                PyDict([replaceAllText |-> PyDict(EmptyDict)]),
                PyDict(EmptyDict),
                PyDict([replaceAllText |-> PyDict([occurrencesChanged |-> PyInt(2)])])>>)]))
      [] text = GD_ERROR ->
            Ok(PyDict([error |-> PyDict([code |-> PyInt(400), message |-> Text("Bad request")])]))
      [] text \in {DocumentJson(doc[1], doc[2]) : doc \in DocIds \X Titles} ->
            Ok(ParsedDocument(text))
      [] text \in {EndBody(n) : n \in 2..MaxEnd} ->
            Ok(PyDict([body |-> PyDict([content |-> PyList(<<PyDict(
                [endIndex |-> PyInt(CHOOSE n \in 2..MaxEnd : EndBody(n) = text)])>>)])]))
      [] OTHER -> Raise("JSONDecodeError")

----------------------------------------------------------------------------
(* httpx: responses and transport failures *)

NoHeaders == [h \in {} |-> PyNone]
ResetHeaders == [h \in {"x-rate-limit-reset"} |-> Text("1700000000")]

Response(status, text, headers) ==
    [kind |-> "response", status_code |-> status, text |-> text, headers |-> headers]
Failure(exc) == [kind |-> "exception", exc |-> exc]
NoReply == [kind |-> "none"]

\* the httpx exception classes: TimeoutException is a subclass of RequestError
TimeoutException == {"ConnectTimeout", "ReadTimeout"}
RequestError == TimeoutException \cup {"ConnectError"}

\* response.json()
response_json(response) == json_loads(response.text)

\* response.headers.get(name, default)
headers_get(response, name, default) == DictGet(response.headers, name, default)

----------------------------------------------------------------------------
(* A handler runs until it blocks in an HTTP call (Send) or ends (Return).  *)
(* k names the call it is blocked in; "start" is the entry of the handler.  *)

Send(req, k, self) == [op |-> "send", req |-> req, k |-> k, self |-> self]
Return(out, self) == [op |-> "return", out |-> out, self |-> self]

ErrorDict(fragments) == PyDict([error |-> PyStr(fragments)])

\* "error" in result
HasError(res) == "error" \in DOMAIN res.v

----------------------------------------------------------------------------
(* twitter_tool.py: class _TwitterClient *)

TWITTER_API_BASE == "https://api.twitter.com/2"

TwitterClient(bearer_token) == [t |-> "_TwitterClient", token |-> bearer_token, me_id |-> PyNone]

TwitterClient_headers(self) ==
    ("Authorization" :> PyStr(<<"Bearer">> \o Format(self.token)))
        @@ ("Content-Type" :> Text("application/json"))

\* msg of the generic branch of _handle_response: any exception falls back to response.text
TwitterClient_error_msg(response) ==
    LET FromErrors(err, errors) ==
            IF Truthy(errors)
            THEN IF IsList(errors) /\ IsDict(errors.v[1])
                 THEN DictGet(errors.v[1].v, "message", PyNone)
                 ELSE Text(response.text)
            ELSE DictGet(err.val.v, "detail", Text(response.text))
        FromJson(err) ==
            IF Raised(err) \/ ~IsDict(err.val) THEN Text(response.text)
            ELSE FromErrors(err, DictGet(err.val.v, "errors", PyList(<<>>)))
    IN  FromJson(response_json(response))

\* _handle_response without its 401 branch: a 401 falls to the generic branch
TwitterClient_handle_response_No401(response) ==
    IF response.status_code = 429 THEN
        Ok(ErrorDict(<<"Rate", "limited.", "Resets", "at", "timestamp:">>
                     \o Format(headers_get(response, "x-rate-limit-reset", Text("unknown")))))
    ELSE IF response.status_code = 403 THEN
        Ok(ErrorDict(<<"Forbidden", "-", "check", "token", "permissions",
                       "(need", "read+write", "scope)">>))
    ELSE IF response.status_code \notin {200, 201, 204} THEN
        Ok(ErrorDict(<<"Twitter", "API", "error", "(", IntStr(response.status_code), "):">>
                     \o Format(TwitterClient_error_msg(response))))
    ELSE IF response.status_code = 204 THEN
        Ok(PyDict([success |-> PyBool(TRUE)]))
    ELSE response_json(response)

\* _handle_response that never reads the x-rate-limit-reset header
TwitterClient_handle_response_NoResetHint(response) ==
    IF response.status_code = 429 THEN
        Ok(ErrorDict(<<"Rate", "limited.", "Resets", "at", "timestamp:", "unknown">>))
    ELSE IF response.status_code = 401 THEN
        Ok(ErrorDict(<<"Invalid", "or", "expired", "Twitter", "token">>))
    ELSE IF response.status_code = 403 THEN
        Ok(ErrorDict(<<"Forbidden", "-", "check", "token", "permissions",
                       "(need", "read+write", "scope)">>))
    ELSE IF response.status_code \notin {200, 201, 204} THEN
        Ok(ErrorDict(<<"Twitter", "API", "error", "(", IntStr(response.status_code), "):">>
                     \o Format(TwitterClient_error_msg(response))))
    ELSE IF response.status_code = 204 THEN
        Ok(PyDict([success |-> PyBool(TRUE)]))
    ELSE response_json(response)

TwitterClient_handle_response(response) ==
    IF response.status_code = 429 THEN
        Ok(ErrorDict(<<"Rate", "limited.", "Resets", "at", "timestamp:">>
                     \o Format(headers_get(response, "x-rate-limit-reset", Text("unknown")))))
    ELSE IF response.status_code = 401 THEN
        Ok(ErrorDict(<<"Invalid", "or", "expired", "Twitter", "token">>))
    ELSE IF response.status_code = 403 THEN
        Ok(ErrorDict(<<"Forbidden", "-", "check", "token", "permissions",
                       "(need", "read+write", "scope)">>))
    ELSE IF response.status_code \notin {200, 201, 204} THEN
        Ok(ErrorDict(<<"Twitter", "API", "error", "(", IntStr(response.status_code), "):">>
                     \o Format(TwitterClient_error_msg(response))))
    ELSE IF response.status_code = 204 THEN
        Ok(PyDict([success |-> PyBool(TRUE)]))
    ELSE response_json(response)

\* return self._handle_response(response), after the blocked httpx call
TwitterFinish(self, reply) ==
    IF reply.kind = "exception" THEN Return(Raise(reply.exc), self)
    ELSE Return(TwitterClient_handle_response(reply), self)

\* _get_me_id that asks upstream every time, whatever is cached
TwitterClient_get_me_id_NoCache(self, k, reply) ==
    LET Cache(id) == Return(Ok(id), [self EXCEPT !.me_id = id])
        FromResult(res) ==
            IF Raised(res) THEN Return(res, self)
            ELSE IF HasError(res.val) THEN Return(res, self)
            ELSE IF "data" \notin DOMAIN res.val.v THEN Return(Raise("KeyError"), self)
            ELSE IF "id" \notin DOMAIN res.val.v["data"].v THEN Return(Raise("KeyError"), self)
            ELSE Cache(res.val.v["data"].v["id"])
    IN  IF k = "start" THEN
            Send([method |-> "GET", url |-> <<TWITTER_API_BASE, "/users/me">>,
                  headers |-> TwitterClient_headers(self), timeout |-> 30], "me", self)
        ELSE IF reply.kind = "exception" THEN Return(Raise(reply.exc), self)
        ELSE FromResult(TwitterClient_handle_response(reply))

\* _get_me_id that asks again when the identity request yields an error result
TwitterClient_get_me_id_Retry(self, k, reply) ==
    LET Ask == Send([method |-> "GET", url |-> <<TWITTER_API_BASE, "/users/me">>,
                     headers |-> TwitterClient_headers(self), timeout |-> 30], "me", self)
        Cache(id) == Return(Ok(id), [self EXCEPT !.me_id = id])
        FromResult(res) ==
            IF Raised(res) THEN Return(res, self)
            ELSE IF HasError(res.val) THEN Ask
            ELSE IF "data" \notin DOMAIN res.val.v THEN Return(Raise("KeyError"), self)
            ELSE IF "id" \notin DOMAIN res.val.v["data"].v THEN Return(Raise("KeyError"), self)
            ELSE Cache(res.val.v["data"].v["id"])
    IN  IF k = "start" THEN
            IF self.me_id # PyNone THEN Return(Ok(self.me_id), self) ELSE Ask
        ELSE IF reply.kind = "exception" THEN Return(Raise(reply.exc), self)
        ELSE FromResult(TwitterClient_handle_response(reply))

\* _get_me_id that forgets the cached id when the identity request yields an error result
TwitterClient_get_me_id_ClearsOnError(self, k, reply) ==
    LET Cache(id) == Return(Ok(id), [self EXCEPT !.me_id = id])
        FromResult(res) ==
            IF Raised(res) THEN Return(res, self)
            ELSE IF HasError(res.val) THEN Return(res, [self EXCEPT !.me_id = PyNone])
            ELSE IF "data" \notin DOMAIN res.val.v THEN Return(Raise("KeyError"), self)
            ELSE IF "id" \notin DOMAIN res.val.v["data"].v THEN Return(Raise("KeyError"), self)
            ELSE Cache(res.val.v["data"].v["id"])
    IN  IF k = "start" THEN
            IF self.me_id # PyNone THEN Return(Ok(self.me_id), self)
            ELSE Send([method |-> "GET", url |-> <<TWITTER_API_BASE, "/users/me">>,
                       headers |-> TwitterClient_headers(self), timeout |-> 30], "me", self)
        ELSE IF reply.kind = "exception" THEN Return(Raise(reply.exc), self)
        ELSE FromResult(TwitterClient_handle_response(reply))

\* _get_me_id that caches the error result of a failed identity request
TwitterClient_get_me_id_CachesErrors(self, k, reply) ==
    LET Cache(id) == Return(Ok(id), [self EXCEPT !.me_id = id])
        FromResult(res) ==
            IF Raised(res) THEN Return(res, self)
            ELSE IF HasError(res.val) THEN Cache(res.val)
            ELSE IF "data" \notin DOMAIN res.val.v THEN Return(Raise("KeyError"), self)
            ELSE IF "id" \notin DOMAIN res.val.v["data"].v THEN Return(Raise("KeyError"), self)
            ELSE Cache(res.val.v["data"].v["id"])
    IN  IF k = "start" THEN
            IF self.me_id # PyNone THEN Return(Ok(self.me_id), self)
            ELSE Send([method |-> "GET", url |-> <<TWITTER_API_BASE, "/users/me">>,
                       headers |-> TwitterClient_headers(self), timeout |-> 30], "me", self)
        ELSE IF reply.kind = "exception" THEN Return(Raise(reply.exc), self)
        ELSE FromResult(TwitterClient_handle_response(reply))

TwitterClient_get_me_id(self, k, reply) ==
    LET Cache(id) == Return(Ok(id), [self EXCEPT !.me_id = id])
        FromResult(res) ==
            IF Raised(res) THEN Return(res, self)
            ELSE IF HasError(res.val) THEN Return(res, self)
            ELSE IF "data" \notin DOMAIN res.val.v THEN Return(Raise("KeyError"), self)
            ELSE IF "id" \notin DOMAIN res.val.v["data"].v THEN Return(Raise("KeyError"), self)
            ELSE Cache(res.val.v["data"].v["id"])
    IN  IF k = "start" THEN
            IF self.me_id # PyNone THEN Return(Ok(self.me_id), self)
            ELSE Send([method |-> "GET", url |-> <<TWITTER_API_BASE, "/users/me">>,
                       headers |-> TwitterClient_headers(self), timeout |-> 30], "me", self)
        ELSE IF reply.kind = "exception" THEN Return(Raise(reply.exc), self)
        ELSE FromResult(TwitterClient_handle_response(reply))

\* me_id = self._get_me_id(); if isinstance(me_id, dict): return me_id; then the request
WithMeId(self, k, reply, Request(_)) ==
    LET FromMeId(me) ==
            IF me.op = "send" THEN me
            ELSE IF Raised(me.out) THEN me
            ELSE IF IsDict(me.out.val) THEN me
            ELSE Send(Request(me.out.val), "op", me.self)
    IN  IF k \in {"start", "me"} THEN FromMeId(TwitterClient_get_me_id(self, k, reply))
        ELSE TwitterFinish(self, reply)

\* post_tweet that sends the reply field whatever reply_to is
TwitterClient_post_tweet_AlwaysReply(self, text, reply_to, k, reply) ==
    IF k = "start" THEN
        Send([method |-> "POST", url |-> <<TWITTER_API_BASE, "/tweets">>,
              headers |-> TwitterClient_headers(self),
              json |-> [text |-> text, reply |-> [in_reply_to_tweet_id |-> reply_to]],
              timeout |-> 30], "op", self)
    ELSE TwitterFinish(self, reply)

TwitterClient_post_tweet(self, text, reply_to, k, reply) ==
    IF k = "start" THEN
        Send([method |-> "POST", url |-> <<TWITTER_API_BASE, "/tweets">>,
              headers |-> TwitterClient_headers(self),
              json |-> IF Truthy(reply_to)
                       THEN [text |-> text, reply |-> [in_reply_to_tweet_id |-> reply_to]]
                       ELSE [text |-> text],
              timeout |-> 30], "op", self)
    ELSE TwitterFinish(self, reply)

TwitterClient_delete_tweet(self, tweet_id, k, reply) ==
    IF k = "start" THEN
        Send([method |-> "DELETE", url |-> <<TWITTER_API_BASE, "/tweets/", tweet_id>>,
              headers |-> TwitterClient_headers(self), timeout |-> 30], "op", self)
    ELSE TwitterFinish(self, reply)

\* get_tweet written over delete_tweet: the request is still a DELETE
TwitterClient_get_tweet_AsDelete(self, tweet_id, tweet_fields, k, reply) ==
    IF k = "start" THEN
        Send([method |-> "DELETE", url |-> <<TWITTER_API_BASE, "/tweets/", tweet_id>>,
              headers |-> TwitterClient_headers(self),
              params |-> ("tweet.fields" :> Text(tweet_fields)), timeout |-> 30], "op", self)
    ELSE TwitterFinish(self, reply)

TwitterClient_get_tweet(self, tweet_id, tweet_fields, k, reply) ==
    IF k = "start" THEN
        Send([method |-> "GET", url |-> <<TWITTER_API_BASE, "/tweets/", tweet_id>>,
              headers |-> TwitterClient_headers(self),
              params |-> ("tweet.fields" :> Text(tweet_fields)), timeout |-> 30], "op", self)
    ELSE TwitterFinish(self, reply)

Min(a, b) == IF a < b THEN a ELSE b
Max(a, b) == IF a > b THEN a ELSE b

\* search_tweets with the ceiling only: min(max_results, 100)
TwitterClient_search_tweets_NoFloor(self, query, max_results, tweet_fields, k, reply) ==
    IF k = "start" THEN
        Send([method |-> "GET", url |-> <<TWITTER_API_BASE, "/tweets/search/recent">>,
              headers |-> TwitterClient_headers(self),
              params |-> ("query" :> Text(query))
                          @@ ("max_results" :> PyInt(Min(max_results, 100)))
                          @@ ("tweet.fields" :> Text(tweet_fields)),
              timeout |-> 30], "op", self)
    ELSE TwitterFinish(self, reply)

TwitterClient_search_tweets(self, query, max_results, tweet_fields, k, reply) ==
    IF k = "start" THEN
        Send([method |-> "GET", url |-> <<TWITTER_API_BASE, "/tweets/search/recent">>,
              headers |-> TwitterClient_headers(self),
              params |-> ("query" :> Text(query))
                          @@ ("max_results" :> PyInt(Max(10, Min(max_results, 100))))
                          @@ ("tweet.fields" :> Text(tweet_fields)),
              timeout |-> 30], "op", self)
    ELSE TwitterFinish(self, reply)

TwitterClient_like_tweet(self, tweet_id, k, reply) ==
    WithMeId(self, k, reply,
        LAMBDA me_id : [method |-> "POST",
                        url |-> <<TWITTER_API_BASE, "/users/">> \o Format(me_id) \o <<"/likes">>,
                        headers |-> TwitterClient_headers(self),
                        json |-> [tweet_id |-> tweet_id], timeout |-> 30])

TwitterClient_unlike_tweet(self, tweet_id, k, reply) ==
    WithMeId(self, k, reply,
        LAMBDA me_id : [method |-> "DELETE",
                        url |-> <<TWITTER_API_BASE, "/users/">> \o Format(me_id)
                                    \o <<"/likes/", tweet_id>>,
                        headers |-> TwitterClient_headers(self), timeout |-> 30])

TwitterClient_retweet(self, tweet_id, k, reply) ==
    WithMeId(self, k, reply,
        LAMBDA me_id : [method |-> "POST",
                        url |-> <<TWITTER_API_BASE, "/users/">> \o Format(me_id) \o <<"/retweets">>,
                        headers |-> TwitterClient_headers(self),
                        json |-> [tweet_id |-> tweet_id], timeout |-> 30])

TwitterClient_undo_retweet(self, tweet_id, k, reply) ==
    WithMeId(self, k, reply,
        LAMBDA me_id : [method |-> "DELETE",
                        url |-> <<TWITTER_API_BASE, "/users/">> \o Format(me_id)
                                    \o <<"/retweets/", tweet_id>>,
                        headers |-> TwitterClient_headers(self), timeout |-> 30])

TwitterClient_get_user(self, username, k, reply) ==
    IF k = "start" THEN
        Send([method |-> "GET", url |-> <<TWITTER_API_BASE, "/users/by/username/", username>>,
              headers |-> TwitterClient_headers(self),
              params |-> ("user.fields" :> Text("created_at,description,public_metrics,verified")),
              timeout |-> 30], "op", self)
    ELSE TwitterFinish(self, reply)

TwitterClient_follow_user(self, target_user_id, k, reply) ==
    WithMeId(self, k, reply,
        LAMBDA me_id : [method |-> "POST",
                        url |-> <<TWITTER_API_BASE, "/users/">> \o Format(me_id) \o <<"/following">>,
                        headers |-> TwitterClient_headers(self),
                        json |-> [target_user_id |-> target_user_id], timeout |-> 30])

TwitterClient_unfollow_user(self, target_user_id, k, reply) ==
    WithMeId(self, k, reply,
        LAMBDA me_id : [method |-> "DELETE",
                        url |-> <<TWITTER_API_BASE, "/users/">> \o Format(me_id)
                                    \o <<"/following/", target_user_id>>,
                        headers |-> TwitterClient_headers(self), timeout |-> 30])

\* params of the four paginated listings: pagination_token only when truthy
PagedParams(max_results, fields_key, fields, pagination_token) ==
    IF Truthy(pagination_token)
    THEN ("max_results" :> PyInt(max_results)) @@ (fields_key :> Text(fields))
            @@ ("pagination_token" :> pagination_token)
    ELSE ("max_results" :> PyInt(max_results)) @@ (fields_key :> Text(fields))

\* get_followers that passes max_results on as it is
TwitterClient_get_followers_NoCeiling(self, user_id, max_results, pagination_token, k, reply) ==
    IF k = "start" THEN
        Send([method |-> "GET", url |-> <<TWITTER_API_BASE, "/users/", user_id, "/followers">>,
              headers |-> TwitterClient_headers(self),
              params |-> PagedParams(max_results, "user.fields",
                                     "created_at,description,public_metrics", pagination_token),
              timeout |-> 30], "op", self)
    ELSE TwitterFinish(self, reply)

TwitterClient_get_followers(self, user_id, max_results, pagination_token, k, reply) ==
    IF k = "start" THEN
        Send([method |-> "GET", url |-> <<TWITTER_API_BASE, "/users/", user_id, "/followers">>,
              headers |-> TwitterClient_headers(self),
              params |-> PagedParams(Min(max_results, 1000), "user.fields",
                                     "created_at,description,public_metrics", pagination_token),
              timeout |-> 30], "op", self)
    ELSE TwitterFinish(self, reply)

TwitterClient_get_following(self, user_id, max_results, pagination_token, k, reply) ==
    IF k = "start" THEN
        Send([method |-> "GET", url |-> <<TWITTER_API_BASE, "/users/", user_id, "/following">>,
              headers |-> TwitterClient_headers(self),
              params |-> PagedParams(Min(max_results, 1000), "user.fields",
                                     "created_at,description,public_metrics", pagination_token),
              timeout |-> 30], "op", self)
    ELSE TwitterFinish(self, reply)

TwitterClient_get_user_tweets(self, user_id, max_results, pagination_token, tweet_fields, k, reply) ==
    IF k = "start" THEN
        Send([method |-> "GET", url |-> <<TWITTER_API_BASE, "/users/", user_id, "/tweets">>,
              headers |-> TwitterClient_headers(self),
              params |-> PagedParams(Max(5, Min(max_results, 100)), "tweet.fields",
                                     tweet_fields, pagination_token),
              timeout |-> 30], "op", self)
    ELSE TwitterFinish(self, reply)

TwitterClient_get_mentions(self, user_id, max_results, pagination_token, tweet_fields, k, reply) ==
    IF k = "start" THEN
        Send([method |-> "GET", url |-> <<TWITTER_API_BASE, "/users/", user_id, "/mentions">>,
              headers |-> TwitterClient_headers(self),
              params |-> PagedParams(Max(5, Min(max_results, 100)), "tweet.fields",
                                     tweet_fields, pagination_token),
              timeout |-> 30], "op", self)
    ELSE TwitterFinish(self, reply)

----------------------------------------------------------------------------
(* the try/except around the client call of a tool *)

\* the two handlers in the other order: the base class RequestError is matched first
ExceptTransport_RequestErrorFirst(out) ==
    IF out.exc \in RequestError THEN Ok(ErrorDict(<<"Network", "error:", out.exc>>))
    ELSE IF out.exc \in TimeoutException THEN Ok(ErrorDict(<<"Request", "timed", "out">>))
    ELSE out

\* except httpx.TimeoutException / except httpx.RequestError, in that order;
\* any other exception propagates to the caller
ExceptTransport(out) ==
    IF out.exc \in TimeoutException THEN Ok(ErrorDict(<<"Request", "timed", "out">>))
    ELSE IF out.exc \in RequestError THEN Ok(ErrorDict(<<"Network", "error:", out.exc>>))
    ELSE out

\* x or None
OrNone(x) == IF Truthy(x) THEN x ELSE PyNone

\* os.getenv(name)
getenv(name) == environ[name]

\* credentials.get(name)
credentials_get(name) == credentials.get[name]

----------------------------------------------------------------------------
(* twitter_tool.py: register_tools *)

\* _get_token that falls back to the environment when the store returns None
Twitter_get_token_FallsBack ==
    LET Checked(tok) ==
            IF tok = PyNone THEN Ok(getenv("TWITTER_BEARER_TOKEN"))
            ELSE IF ~IsStr(tok) THEN Raise("TypeError") ELSE Ok(tok) IN
    IF credentials # PyNone THEN Checked(credentials_get("twitter"))
    ELSE Ok(getenv("TWITTER_BEARER_TOKEN"))

\* _get_token that reads the environment when the store returns a value that is not a string
Twitter_get_token_TypeFallsBack ==
    LET Checked(tok) ==
            IF tok # PyNone /\ ~IsStr(tok) THEN Ok(getenv("TWITTER_BEARER_TOKEN")) ELSE Ok(tok) IN
    IF credentials # PyNone THEN Checked(credentials_get("twitter"))
    ELSE Ok(getenv("TWITTER_BEARER_TOKEN"))

Twitter_get_token ==
    LET Checked(tok) == IF tok # PyNone /\ ~IsStr(tok) THEN Raise("TypeError") ELSE Ok(tok) IN
    IF credentials # PyNone THEN Checked(credentials_get("twitter"))
    ELSE Ok(getenv("TWITTER_BEARER_TOKEN"))

TwitterNotConfigured ==
    PyDict([error |-> PyStr(<<"Twitter", "credentials", "not", "configured">>),
            help |-> PyStr(<<"Set", "TWITTER_BEARER_TOKEN", "environment", "variable",
                             "or", "connect", "Twitter", "via", "hive.adenhq.com">>)])

\* _get_client that tests `token is None` instead of `not token`
Twitter_get_client_NoneOnly ==
    LET FromToken(tok) ==
            IF Raised(tok) THEN tok
            ELSE IF tok.val = PyNone THEN Ok(TwitterNotConfigured)
            ELSE Ok(TwitterClient(tok.val))
    IN  FromToken(Twitter_get_token)

\* _get_client that hands out a client whose identity is already cached
Twitter_get_client_KeepsIdentity ==
    LET FromToken(tok) ==
            IF Raised(tok) THEN tok
            ELSE IF ~Truthy(tok.val) THEN Ok(TwitterNotConfigured)
            ELSE Ok([TwitterClient(tok.val) EXCEPT !.me_id = Text("42")])
    IN  FromToken(Twitter_get_token)

Twitter_get_client ==
    LET FromToken(tok) ==
            IF Raised(tok) THEN tok
            ELSE IF ~Truthy(tok.val) THEN Ok(TwitterNotConfigured)
            ELSE Ok(TwitterClient(tok.val))
    IN  FromToken(Twitter_get_token)

\* the body shared by the fifteen tools: client = _get_client(); the dict is returned;
\* try: result = client.<method>(...); an error result is returned as it is, any other
\* is shaped; the transport exceptions become error results
TwitterTool(k, reply, Method(_), Shape(_)) ==
    LET FromMethod(s) ==
            IF s.op = "send" THEN s
            ELSE IF Raised(s.out) THEN Return(ExceptTransport(s.out), s.self)
            ELSE IF HasError(s.out.val) THEN s
            ELSE Return(Ok(Shape(s.out.val)), s.self)
        FromClient(gc) ==
            IF Raised(gc) \/ IsDict(gc.val) THEN Return(gc, PyNone)
            ELSE FromMethod(Method(gc.val))
    IN  FromClient(IF k = "start" THEN Twitter_get_client ELSE Ok(client))

\* result.get("data", {})
DataOf(res) == DictGet(res.v, "data", PyDict(EmptyDict))

twitter_post_tweet(args, k, reply) ==
    TwitterTool(k, reply,
        LAMBDA c : TwitterClient_post_tweet(c, Text(args.text), OrNone(Text(args.reply_to)), k, reply),
        LAMBDA res : PyDict([success |-> PyBool(TRUE),
                             tweet_id |-> DictGet(DataOf(res).v, "id", PyNone),
                             text |-> DictGet(DataOf(res).v, "text", PyNone)]))

twitter_delete_tweet(args, k, reply) ==
    TwitterTool(k, reply,
        LAMBDA c : TwitterClient_delete_tweet(c, args.tweet_id, k, reply),
        LAMBDA res : PyDict([success |-> PyBool(TRUE),
                             deleted |-> DictGet(DataOf(res).v, "deleted", PyBool(FALSE))]))

twitter_get_tweet(args, k, reply) ==
    TwitterTool(k, reply,
        LAMBDA c : TwitterClient_get_tweet(c, args.tweet_id, args.tweet_fields, k, reply),
        LAMBDA res : res)

twitter_search_tweets(args, k, reply) ==
    TwitterTool(k, reply,
        LAMBDA c : TwitterClient_search_tweets(c, args.query, args.max_results,
                                               args.tweet_fields, k, reply),
        LAMBDA res : res)

twitter_like_tweet(args, k, reply) ==
    TwitterTool(k, reply,
        LAMBDA c : TwitterClient_like_tweet(c, args.tweet_id, k, reply),
        LAMBDA res : PyDict([success |-> PyBool(TRUE),
                             liked |-> DictGet(DataOf(res).v, "liked", PyBool(FALSE))]))

twitter_unlike_tweet(args, k, reply) ==
    TwitterTool(k, reply,
        LAMBDA c : TwitterClient_unlike_tweet(c, args.tweet_id, k, reply),
        LAMBDA res : PyDict([success |-> PyBool(TRUE),
                             liked |-> DictGet(DataOf(res).v, "liked", PyBool(FALSE))]))

twitter_retweet(args, k, reply) ==
    TwitterTool(k, reply,
        LAMBDA c : TwitterClient_retweet(c, args.tweet_id, k, reply),
        LAMBDA res : PyDict([success |-> PyBool(TRUE),
                             retweeted |-> DictGet(DataOf(res).v, "retweeted", PyBool(FALSE))]))

twitter_undo_retweet(args, k, reply) ==
    TwitterTool(k, reply,
        LAMBDA c : TwitterClient_undo_retweet(c, args.tweet_id, k, reply),
        LAMBDA res : PyDict([success |-> PyBool(TRUE),
                             retweeted |-> DictGet(DataOf(res).v, "retweeted", PyBool(FALSE))]))

twitter_get_user(args, k, reply) ==
    TwitterTool(k, reply,
        LAMBDA c : TwitterClient_get_user(c, args.username, k, reply),
        LAMBDA res : res)

twitter_follow_user(args, k, reply) ==
    TwitterTool(k, reply,
        LAMBDA c : TwitterClient_follow_user(c, args.target_user_id, k, reply),
        LAMBDA res : PyDict([success |-> PyBool(TRUE),
                             following |-> DictGet(DataOf(res).v, "following", PyBool(FALSE))]))

twitter_unfollow_user(args, k, reply) ==
    TwitterTool(k, reply,
        LAMBDA c : TwitterClient_unfollow_user(c, args.target_user_id, k, reply),
        LAMBDA res : PyDict([success |-> PyBool(TRUE),
                             following |-> DictGet(DataOf(res).v, "following", PyBool(TRUE))]))

twitter_get_followers(args, k, reply) ==
    TwitterTool(k, reply,
        LAMBDA c : TwitterClient_get_followers(c, args.user_id, args.max_results,
                                               OrNone(Text(args.pagination_token)), k, reply),
        LAMBDA res : res)

twitter_get_following(args, k, reply) ==
    TwitterTool(k, reply,
        LAMBDA c : TwitterClient_get_following(c, args.user_id, args.max_results,
                                               OrNone(Text(args.pagination_token)), k, reply),
        LAMBDA res : res)

twitter_get_user_tweets(args, k, reply) ==
    TwitterTool(k, reply,
        LAMBDA c : TwitterClient_get_user_tweets(c, args.user_id, args.max_results,
                        OrNone(Text(args.pagination_token)), args.tweet_fields, k, reply),
        LAMBDA res : res)

twitter_get_mentions(args, k, reply) ==
    TwitterTool(k, reply,
        LAMBDA c : TwitterClient_get_mentions(c, args.user_id, args.max_results,
                        OrNone(Text(args.pagination_token)), args.tweet_fields, k, reply),
        LAMBDA res : res)

----------------------------------------------------------------------------
(* google_docs_tool.py: class _GoogleDocsClient *)

GOOGLE_DOCS_API_BASE == "https://docs.googleapis.com/v1"
GOOGLE_DRIVE_API_BASE == "https://www.googleapis.com/drive/v3"

GoogleDocsClient(access_token) == [t |-> "_GoogleDocsClient", token |-> access_token]

GoogleDocsClient_headers(self) ==
    ("Authorization" :> PyStr(<<"Bearer">> \o Format(self.token)))
        @@ ("Content-Type" :> Text("application/json"))
        @@ ("Accept" :> Text("application/json"))

\* detail of the generic branch of _handle_response: any exception falls back to response.text
GoogleDocsClient_error_detail(response) ==
    LET FromError(e) ==
            IF IsDict(e) THEN DictGet(e.v, "message", Text(response.text))
            ELSE Text(response.text)
        FromJson(error_data) ==
            IF Raised(error_data) \/ ~IsDict(error_data.val) THEN Text(response.text)
            ELSE FromError(DictGet(error_data.val.v, "error", PyDict(EmptyDict)))
    IN  FromJson(response_json(response))

\* _handle_response without its 404 branch: a 404 falls to the generic branch
GoogleDocsClient_handle_response_No404(response) ==
    IF response.status_code = 401 THEN
        Ok(ErrorDict(<<"Invalid", "or", "expired", "Google", "access", "token">>))
    ELSE IF response.status_code = 403 THEN
        Ok(ErrorDict(<<"Insufficient", "permissions.", "Check", "your", "Google", "API",
                       "scopes.", "Required", "scopes:",
                       "https://www.googleapis.com/auth/documents">>))
    ELSE IF response.status_code = 429 THEN
        Ok(ErrorDict(<<"Google", "API", "rate", "limit", "exceeded.", "Try", "again", "later.">>))
    ELSE IF response.status_code >= 400 THEN
        Ok(ErrorDict(<<"Google", "Docs", "API", "error", "(HTTP",
                       IntStr(response.status_code), "):">>
                     \o Format(GoogleDocsClient_error_detail(response))))
    ELSE response_json(response)

GoogleDocsClient_handle_response(response) ==
    IF response.status_code = 401 THEN
        Ok(ErrorDict(<<"Invalid", "or", "expired", "Google", "access", "token">>))
    ELSE IF response.status_code = 403 THEN
        Ok(ErrorDict(<<"Insufficient", "permissions.", "Check", "your", "Google", "API",
                       "scopes.", "Required", "scopes:",
                       "https://www.googleapis.com/auth/documents">>))
    ELSE IF response.status_code = 404 THEN
        Ok(ErrorDict(<<"Document", "not", "found">>))
    ELSE IF response.status_code = 429 THEN
        Ok(ErrorDict(<<"Google", "API", "rate", "limit", "exceeded.", "Try", "again", "later.">>))
    ELSE IF response.status_code >= 400 THEN
        Ok(ErrorDict(<<"Google", "Docs", "API", "error", "(HTTP",
                       IntStr(response.status_code), "):">>
                     \o Format(GoogleDocsClient_error_detail(response))))
    ELSE response_json(response)

\* return self._handle_response(response), after the blocked httpx call
GoogleFinish(self, reply) ==
    IF reply.kind = "exception" THEN Return(Raise(reply.exc), self)
    ELSE Return(GoogleDocsClient_handle_response(reply), self)

GoogleDocsClient_create_document(self, title, k, reply) ==
    IF k = "start" THEN
        Send([method |-> "POST", url |-> <<GOOGLE_DOCS_API_BASE, "/documents">>,
              headers |-> GoogleDocsClient_headers(self),
              json |-> [title |-> title], timeout |-> 30], "op", self)
    ELSE GoogleFinish(self, reply)

GetDocumentRequest(self, document_id) ==
    [method |-> "GET", url |-> <<GOOGLE_DOCS_API_BASE, "/documents/", document_id>>,
     headers |-> GoogleDocsClient_headers(self), timeout |-> 30]

GoogleDocsClient_get_document(self, document_id, k, reply) ==
    IF k = "start" THEN Send(GetDocumentRequest(self, document_id), "op", self)
    ELSE GoogleFinish(self, reply)

BatchUpdateRequest(self, document_id, requests) ==
    [method |-> "POST",
     url |-> <<GOOGLE_DOCS_API_BASE, "/documents/", document_id, ":batchUpdate">>,
     headers |-> GoogleDocsClient_headers(self),
     json |-> [requests |-> requests], timeout |-> 60]

GoogleDocsClient_batch_update(self, document_id, requests, k, reply) ==
    IF k = "start" THEN Send(BatchUpdateRequest(self, document_id, requests), "op", self)
    ELSE GoogleFinish(self, reply)

\* the end index taken as the insertion index, without stepping before the final newline
EndOfDocumentIndex_AtEndIndex(doc) ==
    LET FromLast(last_element) == PyInt(DictGet(last_element.v, "endIndex", PyInt(1)).v)
        FromContent(content) ==
            IF Truthy(content) THEN FromLast(content.v[Len(content.v)]) ELSE PyInt(1)
        FromBody(body) == FromContent(DictGet(body.v, "content", PyList(<<>>)))
    IN  FromBody(DictGet(doc.v, "body", PyDict(EmptyDict)))

\* location["index"] of insert_text(index=None), from the fetched document
EndOfDocumentIndex(doc) ==
    LET FromLast(last_element) == PyInt(DictGet(last_element.v, "endIndex", PyInt(1)).v - 1)
        FromContent(content) ==
            IF Truthy(content) THEN FromLast(content.v[Len(content.v)]) ELSE PyInt(1)
        FromBody(body) == FromContent(DictGet(body.v, "content", PyList(<<>>)))
    IN  FromBody(DictGet(doc.v, "body", PyDict(EmptyDict)))

InsertTextRequest(location, text) ==
    PyDict([insertText |-> PyDict([location |-> PyDict(location), text |-> text])])

\* insert_text that takes the start of the document when no index is given
GoogleDocsClient_insert_text_NoFetch(self, document_id, text, index, segment_id, k, reply) ==
    LET Insert(location) ==
            Send(BatchUpdateRequest(self, document_id,
                                    PyList(<<InsertTextRequest(location, text)>>)), "op", self)
        FromLocation(location0) ==
            IF k = "start"
            THEN Insert(location0 @@ ("index" :> (IF index # PyNone THEN index ELSE PyInt(1))))
            ELSE GoogleFinish(self, reply)
    IN  FromLocation(IF Truthy(segment_id) THEN ("segmentId" :> segment_id) ELSE EmptyDict)

GoogleDocsClient_insert_text(self, document_id, text, index, segment_id, k, reply) ==
    LET Insert(location) ==
            Send(BatchUpdateRequest(self, document_id,
                                    PyList(<<InsertTextRequest(location, text)>>)), "op", self)
        At(location0, i) == Insert(location0 @@ ("index" :> i))
        FromDocument(location0, doc) ==
            IF Raised(doc) THEN Return(doc, self)
            ELSE IF HasError(doc.val) THEN Return(doc, self)
            ELSE At(location0, EndOfDocumentIndex(doc.val))
        FromLocation(location0) ==
            IF k = "start" THEN
                IF index # PyNone THEN At(location0, index)
                ELSE Send(GetDocumentRequest(self, document_id), "doc", self)
            ELSE IF k = "doc" THEN FromDocument(location0, GoogleFinish(self, reply).out)
            ELSE GoogleFinish(self, reply)
    IN  FromLocation(IF Truthy(segment_id) THEN ("segmentId" :> segment_id) ELSE EmptyDict)

GoogleDocsClient_replace_all_text(self, document_id, find_text, replace_text, match_case, k, reply) ==
    GoogleDocsClient_batch_update(self, document_id,
        PyList(<<PyDict([replaceAllText |-> PyDict(
            [containsText |-> PyDict([text |-> find_text, matchCase |-> match_case]),
             replaceText |-> replace_text])])>>),
        k, reply)

Magnitude(x) == PyDict([magnitude |-> x, unit |-> Text("PT")])

GoogleDocsClient_insert_image(self, document_id, image_uri, index, width_pt, height_pt, k, reply) ==
    LET Sized(base) ==
            base @@ ("objectSize" :> PyDict(
                (IF width_pt # PyNone THEN ("width" :> Magnitude(width_pt)) ELSE EmptyDict)
                @@ (IF height_pt # PyNone THEN ("height" :> Magnitude(height_pt)) ELSE EmptyDict)))
        Request(base) ==
            IF width_pt # PyNone \/ height_pt # PyNone
            THEN PyDict([insertInlineImage |-> PyDict(Sized(base))])
            ELSE PyDict([insertInlineImage |-> PyDict(base)])
    IN  GoogleDocsClient_batch_update(self, document_id,
            PyList(<<Request([location |-> PyDict([index |-> index]), uri |-> image_uri])>>),
            k, reply)

\* ",".join(fields)
RECURSIVE Join(_)
Join(fields) ==
    IF Len(fields) = 0 THEN <<>>
    ELSE IF Len(fields) = 1 THEN <<fields[1]>>
    ELSE <<fields[1], ",">> \o Join(Tail(fields))

GoogleDocsClient_format_text(self, document_id, start_index, end_index, bold, italic, underline, font_size_pt, foreground_color, k, reply) ==
    LET Styled(text_style, fields) ==
            IF fields = <<>>
            THEN Return(Ok(ErrorDict(<<"No", "formatting", "options", "specified">>)), self)
            ELSE GoogleDocsClient_batch_update(self, document_id,
                    PyList(<<PyDict([updateTextStyle |-> PyDict(
                        [range |-> PyDict([startIndex |-> PyInt(start_index),
                                           endIndex |-> PyInt(end_index)]),
                         textStyle |-> PyDict(text_style),
                         fields |-> PyStr(Join(fields))])])>>),
                    k, reply)
    IN  Styled(
            (IF bold # PyNone THEN ("bold" :> bold) ELSE EmptyDict)
            @@ (IF italic # PyNone THEN ("italic" :> italic) ELSE EmptyDict)
            @@ (IF underline # PyNone THEN ("underline" :> underline) ELSE EmptyDict)
            @@ (IF font_size_pt # PyNone THEN ("fontSize" :> Magnitude(font_size_pt)) ELSE EmptyDict)
            @@ (IF foreground_color # PyNone
                THEN ("foregroundColor" :> PyDict([color |-> PyDict([rgbColor |-> foreground_color])]))
                ELSE EmptyDict),
            (IF bold # PyNone THEN <<"bold">> ELSE <<>>)
            \o (IF italic # PyNone THEN <<"italic">> ELSE <<>>)
            \o (IF underline # PyNone THEN <<"underline">> ELSE <<>>)
            \o (IF font_size_pt # PyNone THEN <<"fontSize">> ELSE <<>>)
            \o (IF foreground_color # PyNone THEN <<"foregroundColor">> ELSE <<>>))

GoogleDocsClient_create_list(self, document_id, start_index, end_index, bullet_preset, k, reply) ==
    GoogleDocsClient_batch_update(self, document_id,
        PyList(<<PyDict([createParagraphBullets |-> PyDict(
            [range |-> PyDict([startIndex |-> PyInt(start_index),
                               endIndex |-> PyInt(end_index)]),
             bulletPreset |-> Text(bullet_preset)])])>>),
        k, reply)

GoogleDocsClient_add_comment(self, document_id, content, quoted_text, k, reply) ==
    IF k = "start" THEN
        Send([method |-> "POST",
              url |-> <<GOOGLE_DRIVE_API_BASE, "/files/", document_id, "/comments">>,
              headers |-> GoogleDocsClient_headers(self),
              params |-> [fields |-> Text("*")],
              json |-> IF Truthy(quoted_text)
                       THEN [content |-> content,
                             quotedFileContent |-> [value |-> quoted_text]]
                       ELSE [content |-> content],
              timeout |-> 30], "op", self)
    ELSE GoogleFinish(self, reply)

\* base64.b64encode(content).decode("utf-8") over the body texts of the model
b64encode(content) ==
    CASE content = GD_DOC -> "eyJkb2N1bWVudElkIjogImQxIiwgInRpdGxlIjogIlQiLCAiYm9keSI6IHsiY29udGVudCI6IFt7ImVuZEluZGV4IjogMTJ9XX19"
      [] content = GD_REPLIES -> "eyJkb2N1bWVudElkIjogImQxIiwgInJlcGxpZXMiOiBbeyJyZXBsYWNlQWxsVGV4dCI6IHsib2NjdXJyZW5jZXNDaGFuZ2VkIjogMn19XX0="
      [] content = GD_ERROR -> "eyJlcnJvciI6IHsiY29kZSI6IDQwMCwgIm1lc3NhZ2UiOiAiQmFkIHJlcXVlc3QifX0="
      [] content = JSON_EMPTY_OBJECT -> "e30="
      [] content = HTML_BODY -> "PGh0bWw+QmFkIEdhdGV3YXk8L2h0bWw+"
      [] content = EMPTY_BODY -> ""
      [] OTHER -> "<base64>"

\* len(response.content) over the body texts of the model
content_len(content) ==
    CASE content = GD_DOC -> 75
      [] content = GD_REPLIES -> 80
      [] content = GD_ERROR -> 50
      [] content = JSON_EMPTY_OBJECT -> 2
      [] content = HTML_BODY -> 24
      [] content = EMPTY_BODY -> 0
      [] OTHER -> 1

GoogleDocsClient_export_document(self, document_id, mime_type, k, reply) ==
    IF k = "start" THEN
        Send([method |-> "GET",
              url |-> <<GOOGLE_DRIVE_API_BASE, "/files/", document_id, "/export">>,
              headers |-> GoogleDocsClient_headers(self),
              params |-> [mimeType |-> Text(mime_type)], timeout |-> 60], "op", self)
    ELSE IF reply.kind = "exception" THEN Return(Raise(reply.exc), self)
    ELSE IF reply.status_code = 200 THEN
        Return(Ok(PyDict([document_id |-> Text(document_id),
                          mime_type |-> Text(mime_type),
                          content_base64 |-> Text(b64encode(reply.text)),
                          size_bytes |-> PyInt(content_len(reply.text))])), self)
    ELSE Return(GoogleDocsClient_handle_response(reply), self)

----------------------------------------------------------------------------
(* google_docs_tool.py: register_tools *)

\* _get_token that reads the environment before the store
GoogleDocs_get_token_EnvFirst ==
    LET Checked(tok) == IF tok # PyNone /\ ~IsStr(tok) THEN Raise("TypeError") ELSE Ok(tok)
        FromEnv(tok) ==
            IF Truthy(tok) THEN Ok(tok)
            ELSE IF credentials # PyNone THEN Checked(credentials_get("google_docs"))
            ELSE Ok(PyNone)
    IN  FromEnv(getenv("GOOGLE_DOCS_ACCESS_TOKEN"))

GoogleDocs_get_token ==
    LET Checked(tok) == IF tok # PyNone /\ ~IsStr(tok) THEN Raise("TypeError") ELSE Ok(tok)
        FromJson(sa_data) ==
            IF Raised(sa_data) THEN Ok(PyNone)
            ELSE IF ~IsDict(sa_data.val) THEN Raise("AttributeError")
            ELSE Ok(DictGet(sa_data.val.v, "access_token", PyNone))
        FromServiceAccount(service_account) ==
            IF Truthy(service_account) THEN FromJson(json_loads(service_account.v[1]))
            ELSE Ok(PyNone)
        FromEnv(tok) ==
            IF Truthy(tok) THEN Ok(tok)
            ELSE FromServiceAccount(getenv("GOOGLE_SERVICE_ACCOUNT_JSON"))
    IN  IF credentials # PyNone THEN Checked(credentials_get("google_docs"))
        ELSE FromEnv(getenv("GOOGLE_DOCS_ACCESS_TOKEN"))

GoogleDocsNotConfigured ==
    PyDict([error |-> PyStr(<<"Google", "Docs", "credentials", "not", "configured">>),
            help |-> PyStr(<<"Set", "GOOGLE_DOCS_ACCESS_TOKEN", "environment", "variable",
                             "or", "configure", "via", "credential", "store.",
                             "Get", "credentials", "at:",
                             "https://console.cloud.google.com/apis/credentials">>)])

GoogleDocs_get_client ==
    LET FromToken(tok) ==
            IF Raised(tok) THEN tok
            ELSE IF ~Truthy(tok.val) THEN Ok(GoogleDocsNotConfigured)
            ELSE Ok(GoogleDocsClient(tok.val))
    IN  FromToken(GoogleDocs_get_token)

\* the body shared by the ten tools: client = _get_client(); the dict is returned;
\* try: the client call, its result shaped; except: the handlers of the tool
GoogleDocsTool(k, reply, Method(_), Shape(_), Except(_)) ==
    LET FromMethod(s) ==
            IF s.op = "send" THEN s
            ELSE IF Raised(s.out) THEN Return(Except(s.out), s.self)
            ELSE Return(Ok(Shape(s.out.val)), s.self)
        FromClient(gc) ==
            IF Raised(gc) \/ IsDict(gc.val) THEN Return(gc, PyNone)
            ELSE FromMethod(Method(gc.val))
    IN  FromClient(IF k = "start" THEN GoogleDocs_get_client ELSE Ok(client))

\* google_docs_create_document that reads the id from the key "id"
google_docs_create_document_IdKey(args, k, reply) ==
    GoogleDocsTool(k, reply,
        LAMBDA c : GoogleDocsClient_create_document(c, Text(args.title), k, reply),
        LAMBDA res :
            IF ~HasError(res)
            THEN PyDict([document_id |-> DictGet(res.v, "id", PyNone),
                         title |-> DictGet(res.v, "title", PyNone),
                         document_url |-> PyStr(<<"https://docs.google.com/document/d/">>
                                \o Format(DictGet(res.v, "id", PyNone)) \o <<"/edit">>)])
            ELSE res,
        ExceptTransport)

google_docs_create_document(args, k, reply) ==
    GoogleDocsTool(k, reply,
        LAMBDA c : GoogleDocsClient_create_document(c, Text(args.title), k, reply),
        LAMBDA res :
            IF ~HasError(res)
            THEN PyDict([document_id |-> DictGet(res.v, "documentId", PyNone),
                         title |-> DictGet(res.v, "title", PyNone),
                         document_url |-> PyStr(<<"https://docs.google.com/document/d/">>
                                \o Format(DictGet(res.v, "documentId", PyNone)) \o <<"/edit">>)])
            ELSE res,
        ExceptTransport)

google_docs_get_document(args, k, reply) ==
    GoogleDocsTool(k, reply,
        LAMBDA c : GoogleDocsClient_get_document(c, args.document_id, k, reply),
        LAMBDA res : res, ExceptTransport)

google_docs_insert_text(args, k, reply) ==
    GoogleDocsTool(k, reply,
        LAMBDA c : GoogleDocsClient_insert_text(c, args.document_id, Text(args.text),
                                                args.index, PyNone, k, reply),
        LAMBDA res : res, ExceptTransport)

\* the count taken from the first reply only
SumOccurrences_FirstOnly(replies) ==
    IF replies = <<>> THEN 0
    ELSE DictGet(DictGet(Head(replies).v, "replaceAllText", PyDict(EmptyDict)).v,
                 "occurrencesChanged", PyInt(0)).v

\* occurrences += reply.get("replaceAllText", {}).get("occurrencesChanged", 0), over replies
RECURSIVE SumOccurrences(_)
SumOccurrences(replies) ==
    IF replies = <<>> THEN 0
    ELSE DictGet(DictGet(Head(replies).v, "replaceAllText", PyDict(EmptyDict)).v,
                 "occurrencesChanged", PyInt(0)).v
         + SumOccurrences(Tail(replies))

google_docs_replace_all_text(args, k, reply) ==
    GoogleDocsTool(k, reply,
        LAMBDA c : GoogleDocsClient_replace_all_text(c, args.document_id, Text(args.find_text),
                        Text(args.replace_text), PyBool(args.match_case), k, reply),
        LAMBDA res :
            IF ~HasError(res)
            THEN PyDict([document_id |-> Text(args.document_id),
                         find_text |-> Text(args.find_text),
                         replace_text |-> Text(args.replace_text),
                         occurrences_replaced |->
                            PyInt(SumOccurrences(DictGet(res.v, "replies", PyList(<<>>)).v))])
            ELSE res,
        ExceptTransport)

google_docs_insert_image(args, k, reply) ==
    GoogleDocsTool(k, reply,
        LAMBDA c : GoogleDocsClient_insert_image(c, args.document_id, Text(args.image_uri),
                        PyInt(args.index), args.width_pt, args.height_pt, k, reply),
        LAMBDA res : res, ExceptTransport)

\* x or 0.0
OrZero(x) == IF Truthy(x) THEN x ELSE PyFloat(0)

\* the colour record of google_docs_format_text, None when no component is given
ForegroundColor(red, green, blue) ==
    IF red # PyNone \/ green # PyNone \/ blue # PyNone
    THEN PyDict([red |-> OrZero(red), green |-> OrZero(green), blue |-> OrZero(blue)])
    ELSE PyNone

google_docs_format_text(args, k, reply) ==
    GoogleDocsTool(k, reply,
        LAMBDA c : GoogleDocsClient_format_text(c, args.document_id, args.start_index,
                        args.end_index, args.bold, args.italic, args.underline,
                        args.font_size_pt,
                        ForegroundColor(args.foreground_color_red, args.foreground_color_green,
                                        args.foreground_color_blue),
                        k, reply),
        LAMBDA res : res, ExceptTransport)

\* the handlers of google_docs_batch_update: json.JSONDecodeError first
ExceptBatchUpdate(out) ==
    IF out.exc = "JSONDecodeError" THEN Ok(ErrorDict(<<"Invalid", "JSON:", out.exc>>))
    ELSE ExceptTransport(out)

\* google_docs_batch_update without the isinstance(requests, list) test
\* google_docs_batch_update that validates requests_json before it asks for the client
google_docs_batch_update_ValidatesFirst(args, k, reply) ==
    LET Invalid == ErrorDict(<<"requests_json", "must", "be", "a", "JSON", "array",
                               "of", "request", "objects">>)
        Checked(requests) ==
            IF Raised(requests) \/ ~IsList(requests.val) THEN Return(Ok(Invalid), PyNone)
            ELSE GoogleDocsTool(k, reply,
                    LAMBDA c : GoogleDocsClient_batch_update(c, args.document_id,
                                                             requests.val, k, reply),
                    LAMBDA res : res, ExceptBatchUpdate)
    IN  Checked(json_loads(args.requests_json))

google_docs_batch_update_NoListTest(args, k, reply) ==
    LET Parsed(c, requests) ==
            IF Raised(requests) THEN Return(requests, c)
            ELSE GoogleDocsClient_batch_update(c, args.document_id, requests.val, k, reply)
    IN  GoogleDocsTool(k, reply,
            LAMBDA c : Parsed(c, json_loads(args.requests_json)),
            LAMBDA res : res, ExceptBatchUpdate)

google_docs_batch_update(args, k, reply) ==
    LET Parsed(c, requests) ==
            IF Raised(requests) THEN Return(requests, c)
            ELSE IF ~IsList(requests.val) THEN
                Return(Ok(ErrorDict(<<"requests_json", "must", "be", "a", "JSON", "array",
                                      "of", "request", "objects">>)), c)
            ELSE GoogleDocsClient_batch_update(c, args.document_id, requests.val, k, reply)
    IN  GoogleDocsTool(k, reply,
            LAMBDA c : Parsed(c, json_loads(args.requests_json)),
            LAMBDA res : res, ExceptBatchUpdate)

\* bullet_presets.get(list_type.lower(), "BULLET_DISC_CIRCLE_SQUARE")
\* the preset looked up without lowering list_type
BulletPreset_CaseSensitive(list_type) ==
    IF list_type = "bullet" THEN "BULLET_DISC_CIRCLE_SQUARE"
    ELSE IF list_type = "numbered" THEN "NUMBERED_DECIMAL_ALPHA_ROMAN"
    ELSE "BULLET_DISC_CIRCLE_SQUARE"

BulletPreset(list_type) ==
    LET Get(key) ==
            IF key = "bullet" THEN "BULLET_DISC_CIRCLE_SQUARE"
            ELSE IF key = "numbered" THEN "NUMBERED_DECIMAL_ALPHA_ROMAN"
            ELSE "BULLET_DISC_CIRCLE_SQUARE"
    IN  Get(LowerFragment(list_type))

google_docs_create_list(args, k, reply) ==
    GoogleDocsTool(k, reply,
        LAMBDA c : GoogleDocsClient_create_list(c, args.document_id, args.start_index,
                        args.end_index, BulletPreset(args.list_type), k, reply),
        LAMBDA res : res, ExceptTransport)

google_docs_add_comment(args, k, reply) ==
    GoogleDocsTool(k, reply,
        LAMBDA c : GoogleDocsClient_add_comment(c, args.document_id, Text(args.content),
                                                args.quoted_text, k, reply),
        LAMBDA res : res, ExceptTransport)

\* mime_types.get(format.lower(), "application/pdf")
MimeType(format) ==
    LET Get(key) ==
            CASE key = "pdf" -> "application/pdf"
              [] key = "docx" -> "application/vnd.openxmlformats-officedocument.wordprocessingml.document"
              [] key = "txt" -> "text/plain"
              [] key = "html" -> "text/html"
              [] key = "odt" -> "application/vnd.oasis.opendocument.text"
              [] key = "rtf" -> "application/rtf"
              [] key = "epub" -> "application/epub+zip"
              [] OTHER -> "application/pdf"
    IN  Get(LowerFragment(format))

google_docs_export_content(args, k, reply) ==
    GoogleDocsTool(k, reply,
        LAMBDA c : GoogleDocsClient_export_document(c, args.document_id,
                                                    MimeType(args.format), k, reply),
        LAMBDA res : res, ExceptTransport)

----------------------------------------------------------------------------
(* the registered tools and their dispatch *)

----------------------------------------------------------------------------
(* credentials/twitter.py, credentials/integrations.py: the CredentialSpec records *)

\* a declaration of twitter that leaves out the last tool
TWITTER_CREDENTIALS_NoMentions ==
    [twitter |->
        [env_var |-> "TWITTER_BEARER_TOKEN",
         tools |-> <<"twitter_post_tweet", "twitter_delete_tweet", "twitter_get_tweet",
                     "twitter_search_tweets", "twitter_like_tweet", "twitter_unlike_tweet",
                     "twitter_retweet", "twitter_undo_retweet", "twitter_get_user",
                     "twitter_follow_user", "twitter_unfollow_user", "twitter_get_followers",
                     "twitter_get_following", "twitter_get_user_tweets">>,
         credential_id |-> "twitter", credential_key |-> "access_token"]]

TWITTER_CREDENTIALS ==
    [twitter |->
        [env_var |-> "TWITTER_BEARER_TOKEN",
         tools |-> <<"twitter_post_tweet", "twitter_delete_tweet", "twitter_get_tweet",
                     "twitter_search_tweets", "twitter_like_tweet", "twitter_unlike_tweet",
                     "twitter_retweet", "twitter_undo_retweet", "twitter_get_user",
                     "twitter_follow_user", "twitter_unfollow_user", "twitter_get_followers",
                     "twitter_get_following", "twitter_get_user_tweets",
                     "twitter_get_mentions">>,
         credential_id |-> "twitter", credential_key |-> "access_token"]]

\* the google_docs entry of INTEGRATION_CREDENTIALS
INTEGRATION_CREDENTIALS ==
    [google_docs |->
        [env_var |-> "GOOGLE_DOCS_ACCESS_TOKEN",
         tools |-> <<"google_docs_create_document", "google_docs_get_document",
                     "google_docs_insert_text", "google_docs_replace_all_text",
                     "google_docs_insert_image", "google_docs_format_text",
                     "google_docs_batch_update", "google_docs_create_list",
                     "google_docs_add_comment", "google_docs_export_content">>,
         credential_id |-> "google_docs", credential_key |-> "access_token"]]

----------------------------------------------------------------------------
(* register_tools: the names registered with @mcp.tool() *)

TwitterTools ==
    {"twitter_post_tweet", "twitter_delete_tweet", "twitter_get_tweet",
     "twitter_search_tweets", "twitter_like_tweet", "twitter_unlike_tweet",
     "twitter_retweet", "twitter_undo_retweet", "twitter_get_user",
     "twitter_follow_user", "twitter_unfollow_user", "twitter_get_followers",
     "twitter_get_following", "twitter_get_user_tweets", "twitter_get_mentions"}

GoogleDocsTools ==
    {"google_docs_create_document", "google_docs_get_document", "google_docs_insert_text",
     "google_docs_replace_all_text", "google_docs_insert_image", "google_docs_format_text",
     "google_docs_batch_update", "google_docs_create_list", "google_docs_add_comment",
     "google_docs_export_content"}

\* one step of the tool function `tool`: from its entry, or from the HTTP call k with `reply`
ToolStep(tool, args, k, reply) ==
    CASE tool = "twitter_post_tweet" -> twitter_post_tweet(args, k, reply)
      [] tool = "twitter_delete_tweet" -> twitter_delete_tweet(args, k, reply)
      [] tool = "twitter_get_tweet" -> twitter_get_tweet(args, k, reply)
      [] tool = "twitter_search_tweets" -> twitter_search_tweets(args, k, reply)
      [] tool = "twitter_like_tweet" -> twitter_like_tweet(args, k, reply)
      [] tool = "twitter_unlike_tweet" -> twitter_unlike_tweet(args, k, reply)
      [] tool = "twitter_retweet" -> twitter_retweet(args, k, reply)
      [] tool = "twitter_undo_retweet" -> twitter_undo_retweet(args, k, reply)
      [] tool = "twitter_get_user" -> twitter_get_user(args, k, reply)
      [] tool = "twitter_follow_user" -> twitter_follow_user(args, k, reply)
      [] tool = "twitter_unfollow_user" -> twitter_unfollow_user(args, k, reply)
      [] tool = "twitter_get_followers" -> twitter_get_followers(args, k, reply)
      [] tool = "twitter_get_following" -> twitter_get_following(args, k, reply)
      [] tool = "twitter_get_user_tweets" -> twitter_get_user_tweets(args, k, reply)
      [] tool = "twitter_get_mentions" -> twitter_get_mentions(args, k, reply)
      [] tool = "google_docs_create_document" -> google_docs_create_document(args, k, reply)
      [] tool = "google_docs_get_document" -> google_docs_get_document(args, k, reply)
      [] tool = "google_docs_insert_text" -> google_docs_insert_text(args, k, reply)
      [] tool = "google_docs_replace_all_text" -> google_docs_replace_all_text(args, k, reply)
      [] tool = "google_docs_insert_image" -> google_docs_insert_image(args, k, reply)
      [] tool = "google_docs_format_text" -> google_docs_format_text(args, k, reply)
      [] tool = "google_docs_batch_update" -> google_docs_batch_update(args, k, reply)
      [] tool = "google_docs_create_list" -> google_docs_create_list(args, k, reply)
      [] tool = "google_docs_add_comment" -> google_docs_add_comment(args, k, reply)
      [] tool = "google_docs_export_content" -> google_docs_export_content(args, k, reply)

\* _get_token() of the module that registers `tool`
TokenOf(tool) == IF tool \in TwitterTools THEN Twitter_get_token ELSE GoogleDocs_get_token

----------------------------------------------------------------------------
(* the inputs of the model *)

MaxIndex == 1

EnvNames == {"TWITTER_BEARER_TOKEN", "GOOGLE_DOCS_ACCESS_TOKEN", "GOOGLE_SERVICE_ACCOUNT_JSON"}

EnvValues(name) ==
    IF name = "GOOGLE_SERVICE_ACCOUNT_JSON"
    THEN {PyNone, Text(JSON_MALFORMED), Text(SA_TOKEN), Text(JSON_EMPTY_ARRAY)}
    ELSE {PyNone, Text(""), Text("tokE")}

Environments == {e \in [EnvNames -> UNION {EnvValues(n) : n \in EnvNames}] :
                    \A n \in EnvNames : e[n] \in EnvValues(n)}

\* what the store returns for an integration: absent, a str, or a value that is no str
StoreValues == {PyNone, Text(""), Text("tokS"), PyInt(42)}

Adapter(tw, gd) == [t |-> "CredentialStoreAdapter", get |-> [twitter |-> tw, google_docs |-> gd]]

Adapters == {Adapter(tw, gd) : tw \in StoreValues, gd \in StoreValues}

Statuses == {200, 201, 204, 401, 403, 404, 429, 500}

TwitterBodies == {TW_DATA, TW_ERRORS, TW_DETAIL, JSON_EMPTY_OBJECT, HTML_BODY, EMPTY_BODY}
GoogleBodies == {GD_DOC, GD_REPLIES, GD_REPLIES_MIXED, GD_ERROR, JSON_EMPTY_OBJECT, HTML_BODY, EMPTY_BODY}

\* the responses upstream may give to a request
Responses(req) ==
    LET bodies == IF req.url[1] = TWITTER_API_BASE THEN TwitterBodies ELSE GoogleBodies IN
    {Response(st, b, NoHeaders) : st \in Statuses, b \in bodies}
        \cup {Response(st, b, ResetHeaders) : st \in {401, 429}, b \in {HTML_BODY, EMPTY_BODY}}

NoCall == [tool |-> "none"]
NoPending == [k |-> "none"]
NoInstance == [self |-> PyNone]

----------------------------------------------------------------------------
(* the state machine *)

Init ==
    /\ environ \in Environments
    /\ credentials \in {PyNone} \cup Adapters
    /\ pc = "idle"
    /\ call = NoCall
    /\ token = Ok(PyNone)
    /\ client = PyNone
    /\ pending = NoPending
    /\ sent = <<>>
    /\ received = <<>>
    /\ result = Ok(PyNone)
    \* the documents (their titles, in the order of their creation) and the tweets upstream
    /\ upstream = [documents |-> <<>>, tweets |-> {"t1"}]
    /\ previous = [call |-> NoCall]
    /\ shared = NoInstance

\* the handler ran to its next HTTP call, or to its end
Apply(step) ==
    /\ client' = step.self
    /\ IF step.op = "send"
       THEN /\ pc' = "waiting"
            /\ pending' = [k |-> step.k, req |-> step.req]
            /\ sent' = Append(sent, step.req)
            /\ result' = result
       ELSE /\ pc' = "done"
            /\ pending' = NoPending
            /\ sent' = sent
            /\ result' = step.out

\* the host runtime calls a registered tool
Invoke(tool, args, step) ==
    /\ pc = "idle"
    /\ call' = [tool |-> tool, args |-> args]
    /\ token' = TokenOf(tool)
    /\ Apply(step)
    /\ UNCHANGED <<environ, credentials, received, upstream, previous, shared>>

\* the blocked HTTP call returns `reply` (a response) or raises it (a transport failure)
Resume(reply) ==
    /\ pc = "waiting"
    /\ received' = Append(received, reply)
    /\ Apply(ToolStep(call.tool, call.args, pending.k, reply))
    /\ UNCHANGED <<environ, credentials, call, token, previous, shared>>

\* an upstream of which nothing is known answers the request in any way
UpstreamResponds ==
    /\ pc = "waiting"
    /\ \E reply \in Responses(pending.req) : Resume(reply)
    /\ UNCHANGED upstream

TransportFails ==
    /\ pc = "waiting"
    /\ \E exc \in RequestError : Resume(Failure(exc))
    /\ UNCHANGED upstream

\* the caller has the result; the client object is dropped
ToolReturns ==
    /\ pc = "done"
    /\ pc' = "idle"
    /\ call' = NoCall
    /\ token' = Ok(PyNone)
    /\ client' = PyNone
    /\ sent' = <<>>
    /\ received' = <<>>
    /\ result' = Ok(PyNone)
    /\ UNCHANGED <<environ, credentials, pending, upstream, previous, shared>>

\* between invocations the process environment and the store may change
SetEnv ==
    /\ pc = "idle"
    /\ \E n \in EnvNames : \E v \in EnvValues(n) : environ' = [environ EXCEPT ![n] = v]
    /\ UNCHANGED <<credentials, pc, call, token, client, pending, sent, received, result,
                   upstream, previous, shared>>

SetStore ==
    /\ pc = "idle"
    /\ credentials # PyNone
    /\ credentials' \in Adapters
    /\ UNCHANGED <<environ, pc, call, token, client, pending, sent, received, result,
                   upstream, previous, shared>>

\* the max_results a caller passes: negative, zero, below, within and above the ranges
MaxResultsValues == {-1, 0, 5, 50, 5000}

Call_twitter_post_tweet ==
    \E reply_to \in {"", "t0"} :
        LET Go(args) == Invoke("twitter_post_tweet", args, twitter_post_tweet(args, "start", NoReply))
        IN  Go([text |-> "hello", reply_to |-> reply_to])
Call_twitter_delete_tweet ==
    LET Go(args) == Invoke("twitter_delete_tweet", args, twitter_delete_tweet(args, "start", NoReply))
    IN  Go([tweet_id |-> "t1"])
Call_twitter_get_tweet ==
    LET Go(args) == Invoke("twitter_get_tweet", args, twitter_get_tweet(args, "start", NoReply))
    IN  Go([tweet_id |-> "t1",
                                 tweet_fields |-> "created_at,author_id,public_metrics"])
Call_twitter_search_tweets ==
    \E max_results \in MaxResultsValues :
        LET Go(args) == Invoke("twitter_search_tweets", args, twitter_search_tweets(args, "start", NoReply))
        IN  Go([query |-> "q", max_results |-> max_results,
                tweet_fields |-> "created_at,author_id,public_metrics"])
Call_twitter_like_tweet ==
    LET Go(args) == Invoke("twitter_like_tweet", args, twitter_like_tweet(args, "start", NoReply))
    IN  Go([tweet_id |-> "t1"])
Call_twitter_unlike_tweet ==
    LET Go(args) == Invoke("twitter_unlike_tweet", args, twitter_unlike_tweet(args, "start", NoReply))
    IN  Go([tweet_id |-> "t1"])
Call_twitter_retweet ==
    LET Go(args) == Invoke("twitter_retweet", args, twitter_retweet(args, "start", NoReply))
    IN  Go([tweet_id |-> "t1"])
Call_twitter_undo_retweet ==
    LET Go(args) == Invoke("twitter_undo_retweet", args, twitter_undo_retweet(args, "start", NoReply))
    IN  Go([tweet_id |-> "t1"])
Call_twitter_get_user ==
    LET Go(args) == Invoke("twitter_get_user", args, twitter_get_user(args, "start", NoReply))
    IN  Go([username |-> "alice"])
Call_twitter_follow_user ==
    LET Go(args) == Invoke("twitter_follow_user", args, twitter_follow_user(args, "start", NoReply))
    IN  Go([target_user_id |-> "7"])
Call_twitter_unfollow_user ==
    LET Go(args) == Invoke("twitter_unfollow_user", args, twitter_unfollow_user(args, "start", NoReply))
    IN  Go([target_user_id |-> "7"])
Call_twitter_get_followers ==
    \E max_results \in MaxResultsValues, pagination_token \in {"", "p1"} :
        LET Go(args) == Invoke("twitter_get_followers", args, twitter_get_followers(args, "start", NoReply))
        IN  Go([user_id |-> "7", max_results |-> max_results,
                pagination_token |-> pagination_token])
Call_twitter_get_following ==
    \E max_results \in MaxResultsValues :
        LET Go(args) == Invoke("twitter_get_following", args, twitter_get_following(args, "start", NoReply))
        IN  Go([user_id |-> "7", max_results |-> max_results, pagination_token |-> ""])
Call_twitter_get_user_tweets ==
    \E max_results \in MaxResultsValues :
        LET Go(args) == Invoke("twitter_get_user_tweets", args, twitter_get_user_tweets(args, "start", NoReply))
        IN  Go([user_id |-> "7", max_results |-> max_results, pagination_token |-> "",
                tweet_fields |-> "created_at,public_metrics"])
Call_twitter_get_mentions ==
    \E max_results \in MaxResultsValues :
        LET Go(args) == Invoke("twitter_get_mentions", args, twitter_get_mentions(args, "start", NoReply))
        IN  Go([user_id |-> "7", max_results |-> max_results, pagination_token |-> "",
                tweet_fields |-> "created_at,author_id,public_metrics"])

Call_google_docs_create_document ==
    \E title \in Titles :
        LET Go(args) == Invoke("google_docs_create_document", args, google_docs_create_document(args, "start", NoReply))
        IN  Go([title |-> title])
Call_google_docs_get_document ==
    \E document_id \in DocIds :
        LET Go(args) == Invoke("google_docs_get_document", args, google_docs_get_document(args, "start", NoReply))
        IN  Go([document_id |-> document_id])
Call_google_docs_insert_text ==
    \E index \in {PyNone} \cup {PyInt(i) : i \in 0..MaxIndex} :
        LET Go(args) == Invoke("google_docs_insert_text", args, google_docs_insert_text(args, "start", NoReply))
        IN  Go([document_id |-> "d1", text |-> "hi", index |-> index])
Call_google_docs_replace_all_text ==
    LET Go(args) == Invoke("google_docs_replace_all_text", args, google_docs_replace_all_text(args, "start", NoReply))
    IN  Go([document_id |-> "d1", find_text |-> "{{Name}}", replace_text |-> "Ada",
            match_case |-> TRUE])
Call_google_docs_insert_image ==
    \E width_pt \in {PyNone, PyFloat(10)} :
        LET Go(args) == Invoke("google_docs_insert_image", args, google_docs_insert_image(args, "start", NoReply))
        IN  Go([document_id |-> "d1", image_uri |-> "https://example.com/a.png", index |-> 1,
                width_pt |-> width_pt, height_pt |-> PyNone])
Call_google_docs_format_text ==
    \E bold \in {PyNone, PyBool(TRUE)}, font_size_pt \in {PyNone, PyFloat(12)},
       red \in {PyNone, PyFloat(0)} :
        LET Go(args) == Invoke("google_docs_format_text", args, google_docs_format_text(args, "start", NoReply))
        IN  Go([document_id |-> "d1", start_index |-> 1, end_index |-> 1 + MaxIndex,
                bold |-> bold, italic |-> PyNone, underline |-> PyNone,
                font_size_pt |-> font_size_pt, foreground_color_red |-> red,
                foreground_color_green |-> PyNone, foreground_color_blue |-> PyNone])
Call_google_docs_batch_update ==
    \E requests_json \in {REQUESTS_ONE, JSON_EMPTY_ARRAY, JSON_EMPTY_OBJECT, JSON_MALFORMED} :
        LET Go(args) == Invoke("google_docs_batch_update", args, google_docs_batch_update(args, "start", NoReply))
        IN  Go([document_id |-> "d1", requests_json |-> requests_json])
Call_google_docs_create_list ==
    \E list_type \in {"bullet", "BULLET", "numbered", "Numbered", "roman"} :
        LET Go(args) == Invoke("google_docs_create_list", args, google_docs_create_list(args, "start", NoReply))
        IN  Go([document_id |-> "d1", start_index |-> 1, end_index |-> 1 + MaxIndex,
                list_type |-> list_type])
Call_google_docs_add_comment ==
    \E quoted_text \in {PyNone, Text("quote")} :
        LET Go(args) == Invoke("google_docs_add_comment", args, google_docs_add_comment(args, "start", NoReply))
        IN  Go([document_id |-> "d1", content |-> "note", quoted_text |-> quoted_text])
Call_google_docs_export_content ==
    \E format \in {"pdf", "DOCX", "md"} :
        LET Go(args) == Invoke("google_docs_export_content", args, google_docs_export_content(args, "start", NoReply))
        IN  Go([document_id |-> "d1", format |-> format])

Next ==
    \/ Call_twitter_post_tweet
    \/ Call_twitter_delete_tweet
    \/ Call_twitter_get_tweet
    \/ Call_twitter_search_tweets
    \/ Call_twitter_like_tweet
    \/ Call_twitter_unlike_tweet
    \/ Call_twitter_retweet
    \/ Call_twitter_undo_retweet
    \/ Call_twitter_get_user
    \/ Call_twitter_follow_user
    \/ Call_twitter_unfollow_user
    \/ Call_twitter_get_followers
    \/ Call_twitter_get_following
    \/ Call_twitter_get_user_tweets
    \/ Call_twitter_get_mentions
    \/ Call_google_docs_create_document
    \/ Call_google_docs_get_document
    \/ Call_google_docs_insert_text
    \/ Call_google_docs_replace_all_text
    \/ Call_google_docs_insert_image
    \/ Call_google_docs_format_text
    \/ Call_google_docs_batch_update
    \/ Call_google_docs_create_list
    \/ Call_google_docs_add_comment
    \/ Call_google_docs_export_content
    \/ UpstreamResponds
    \/ TransportFails
    \/ ToolReturns
    \/ SetEnv
    \/ SetStore

Spec == Init /\ [][Next]_vars

----------------------------------------------------------------------------
(* The same tools against an upstream that stores what it is sent and serves  *)
(* what it stores, with a credential configured; the caller keeps the last    *)
(* result to compare the next one with.                                      *)

\* the answer of the storing upstream to `req`, and what it holds afterwards
Serve(state, req) ==
    LET \* the title a create request carries
        TitleOf(title) == IF title.v = <<>> THEN "" ELSE title.v[1]
        Served(status, text, held) == [reply |-> Response(status, text, NoHeaders), state |-> held]
        Stored(i) == i \in DOMAIN state.documents /\ DocId(i) = req.url[3]
        Found(ids) ==
            IF ids = {} THEN Served(404, GD_ERROR, state)
            ELSE Served(200, DocumentJson(req.url[3], state.documents[CHOOSE i \in ids : TRUE]),
                        state)
    IN  IF req.method = "POST" /\ req.url = <<GOOGLE_DOCS_API_BASE, "/documents">> THEN
            Served(200, DocumentJson(DocId(Len(state.documents) + 1), TitleOf(req.json.title)),
                   [state EXCEPT !.documents = Append(@, TitleOf(req.json.title))])
        ELSE IF Len(req.url) = 3 /\ req.url[1] = GOOGLE_DOCS_API_BASE
                /\ req.url[2] = "/documents/" /\ req.method = "GET" THEN
            Found({i \in 1..MaxDocuments : Stored(i)})
        ELSE IF Len(req.url) = 3 /\ req.url[1] = TWITTER_API_BASE /\ req.url[2] = "/tweets/" THEN
            IF req.url[3] \notin state.tweets THEN Served(404, TW_DETAIL, state)
            ELSE IF req.method = "DELETE"
                 THEN Served(200, TW_DATA, [state EXCEPT !.tweets = @ \ {req.url[3]}])
            ELSE IF req.method = "GET" THEN Served(200, TW_DATA, state)
            ELSE Served(404, TW_DETAIL, state)
        ELSE IF Len(req.url) = 3 /\ req.url[1] = TWITTER_API_BASE
                /\ req.url[2] = "/users/by/username/" /\ req.method = "GET" THEN
            Served(200, TW_DATA, state)
        ELSE Served(404, HTML_BODY, state)

StoringInit ==
    /\ environ = [n \in EnvNames |-> IF n = "GOOGLE_SERVICE_ACCOUNT_JSON" THEN PyNone
                                     ELSE Text("tokE")]
    /\ credentials \in {PyNone, Adapter(Text("tokS"), Text("tokS"))}
    /\ pc = "idle"
    /\ call = NoCall
    /\ token = Ok(PyNone)
    /\ client = PyNone
    /\ pending = NoPending
    /\ sent = <<>>
    /\ received = <<>>
    /\ result = Ok(PyNone)
    \* the documents (their titles, in the order of their creation) and the tweets upstream
    /\ upstream = [documents |-> <<>>, tweets |-> {"t1"}]
    /\ previous = [call |-> NoCall]
    /\ shared = NoInstance

\* the storing upstream answers the blocked request
UpstreamServes ==
    /\ pc = "waiting"
    /\ LET Answer(served) == Resume(served.reply) /\ upstream' = served.state
       IN  Answer(Serve(upstream, pending.req))

\* the caller has the result and keeps it; the client object is dropped
ToolReturnsKept ==
    /\ pc = "done"
    /\ pc' = "idle"
    /\ previous' = [call |-> call, token |-> token, sent |-> sent, result |-> result]
    /\ call' = NoCall
    /\ token' = Ok(PyNone)
    /\ client' = PyNone
    /\ sent' = <<>>
    /\ received' = <<>>
    /\ result' = Ok(PyNone)
    /\ UNCHANGED <<environ, credentials, pending, upstream, shared>>

\* the upstream holds at most MaxDocuments documents
CreateWhileRoom ==
    /\ Len(upstream.documents) < MaxDocuments
    /\ Call_google_docs_create_document

StoringNext ==
    \/ CreateWhileRoom
    \/ Call_google_docs_get_document
    \/ Call_twitter_get_tweet
    \/ Call_twitter_get_user
    \/ Call_twitter_delete_tweet
    \/ UpstreamServes
    \/ ToolReturnsKept

StoringSpec == StoringInit /\ [][StoringNext]_vars

----------------------------------------------------------------------------
(* google_docs_insert_text against a document that another writer edits: the   *)
(* upstream holds the end index of the document and where the last insert     *)
(* landed; the document grows by one for each fragment of text inserted.      *)

\* the answer of the Docs service to `req`, and the document afterwards
ServeEdits(state, req) ==
    LET Served(status, text, held) == [reply |-> Response(status, text, NoHeaders), state |-> held]
        Landed(insert) ==
            Served(200, JSON_EMPTY_OBJECT,
                   [end |-> state.end + Len(insert["text"].v),
                    landed |-> <<[index |-> insert["location"].v["index"].v, end |-> state.end]>>])
    IN  IF req.method = "GET" THEN Served(200, EndBody(state.end), state)
        ELSE Landed(req.json.requests.v[1].v["insertText"].v)

EditingInit ==
    /\ environ = [n \in EnvNames |-> IF n = "GOOGLE_DOCS_ACCESS_TOKEN" THEN Text("tokE")
                                     ELSE PyNone]
    /\ credentials = PyNone
    /\ pc = "idle"
    /\ call = NoCall
    /\ token = Ok(PyNone)
    /\ client = PyNone
    /\ pending = NoPending
    /\ sent = <<>>
    /\ received = <<>>
    /\ result = Ok(PyNone)
    /\ upstream = [end |-> 2, landed |-> <<>>]
    /\ previous = [call |-> NoCall]
    /\ shared = NoInstance

\* the blocked httpx call returns the service's answer
DocumentServes ==
    /\ pc = "waiting"
    /\ LET Answer(served) == Resume(served.reply) /\ upstream' = served.state
       IN  Answer(ServeEdits(upstream, pending.req))

\* another writer of the document makes it one character longer
OtherWriter ==
    /\ upstream.end < MaxEnd
    /\ upstream' = [upstream EXCEPT !.end = @ + 1]
    /\ UNCHANGED <<environ, credentials, pc, call, token, client, pending, sent, received,
                   result, previous, shared>>

EditingNext ==
    \/ upstream.end < MaxEnd /\ Call_google_docs_insert_text
    \/ DocumentServes
    \/ OtherWriter
    \/ ToolReturns

EditingSpec == EditingInit /\ [][EditingNext]_vars

----------------------------------------------------------------------------
(* A host that invokes the identity-requiring tools one after the other, keeps *)
(* each result, and changes the store and the environment between invocations. *)

\* between two invocations the host rotates the twitter secret, or removes it: in the
\* store when an adapter was supplied, in TWITTER_BEARER_TOKEN otherwise
ChangeSecret ==
    /\ pc = "idle"
    /\ \E secret \in {PyNone, Text("tokS"), Text("tok2")} :
          IF credentials = PyNone
          THEN /\ environ' = [environ EXCEPT !["TWITTER_BEARER_TOKEN"] = secret]
               /\ UNCHANGED credentials
          ELSE /\ credentials' = Adapter(secret, credentials.get["google_docs"])
               /\ UNCHANGED environ
    /\ UNCHANGED <<pc, call, token, client, pending, sent, received, result, upstream,
                   previous, shared>>

SessionNext ==
    \/ Call_twitter_like_tweet
    \/ Call_twitter_unfollow_user
    \/ UpstreamResponds
    \/ TransportFails
    \/ ToolReturnsKept
    \/ ChangeSecret

SessionSpec == StoringInit /\ [][SessionNext]_vars

----------------------------------------------------------------------------
(* One _TwitterClient instance used by several callers: each caller runs one  *)
(* method of the instance at a time, and a method blocked in an HTTP call     *)
(* lets the other callers run.                                                *)

Callers == 1..2
MaxOperations == 2

\* the methods that need the caller's own id, and one that does not
IdentityOps == {"like_tweet", "unlike_tweet", "retweet", "undo_retweet", "follow_user",
                "unfollow_user"}
ClientOps == IdentityOps \cup {"get_tweet"}

\* one step of method `op` of the instance `self`
ClientStep(op, self, k, reply) ==
    CASE op = "like_tweet" -> TwitterClient_like_tweet(self, "t1", k, reply)
      [] op = "unlike_tweet" -> TwitterClient_unlike_tweet(self, "t1", k, reply)
      [] op = "retweet" -> TwitterClient_retweet(self, "t1", k, reply)
      [] op = "undo_retweet" -> TwitterClient_undo_retweet(self, "t1", k, reply)
      [] op = "follow_user" -> TwitterClient_follow_user(self, "7", k, reply)
      [] op = "unfollow_user" -> TwitterClient_unfollow_user(self, "7", k, reply)
      [] op = "get_tweet" ->
            TwitterClient_get_tweet(self, "t1", "created_at,author_id,public_metrics", k, reply)

\* what the upstream may answer to a request of the instance
ClientReplies ==
    {Response(st, b, NoHeaders) : st \in {200, 401}, b \in {TW_DATA, TW_ME_OTHER}}
        \cup {Failure("ConnectTimeout")}

IdleThread == [pc |-> "idle"]

ClientInit ==
    /\ environ = [n \in EnvNames |-> PyNone]
    /\ credentials = PyNone
    /\ pc = "idle"
    /\ call = NoCall
    /\ token = Ok(PyNone)
    /\ client = PyNone
    /\ pending = NoPending
    /\ sent = <<>>
    /\ received = <<>>
    /\ result = Ok(PyNone)
    /\ upstream = [documents |-> <<>>, tweets |-> {"t1"}]
    /\ previous = [call |-> NoCall]
    /\ shared = [self |-> TwitterClient(Text("tokS")), threads |-> [c \in Callers |-> IdleThread],
                 requests |-> <<>>, begun |-> 0]

\* caller c takes the step `step` of its method: the instance is left as the step
\* leaves it, a request goes on the wire, and the method blocks or returns; the thread
\* keeps what the call found cached, what it sent and what it received
ClientApply(c, thread, step, begun) ==
    /\ shared' = [self |-> step.self,
                  threads |-> [shared.threads EXCEPT ![c] =
                                  IF step.op = "send"
                                  THEN [thread EXCEPT !.pc = "waiting", !.k = step.k,
                                                      !.sent = Append(@, step.req)]
                                  ELSE [thread EXCEPT !.pc = "done", !.out = step.out]],
                  requests |-> IF step.op = "send"
                               THEN Append(shared.requests, [caller |-> c, req |-> step.req])
                               ELSE shared.requests,
                  begun |-> begun]
    /\ UNCHANGED <<environ, credentials, pc, call, token, client, pending, sent, received,
                   result, upstream, previous>>

\* caller c calls a method of the instance
Begin(c, op) ==
    /\ shared.threads[c].pc = "idle"
    /\ shared.begun < MaxOperations
    /\ ClientApply(c, [pc |-> "idle", op |-> op, k |-> "start", cached |-> shared.self.me_id,
                       sent |-> <<>>, replies |-> <<>>, out |-> Ok(PyNone)],
                   ClientStep(op, shared.self, "start", NoReply), shared.begun + 1)

\* the HTTP call caller c is blocked in returns or fails
ClientResume(c, reply) ==
    /\ shared.threads[c].pc = "waiting"
    /\ ClientApply(c, [shared.threads[c] EXCEPT !.replies = Append(@, reply)],
                   ClientStep(shared.threads[c].op, shared.self, shared.threads[c].k, reply),
                   shared.begun)

\* caller c has the method's result
Finish(c) ==
    /\ shared.threads[c].pc = "done"
    /\ shared' = [shared EXCEPT !.threads[c] = IdleThread]
    /\ UNCHANGED <<environ, credentials, pc, call, token, client, pending, sent, received,
                   result, upstream, previous>>

ClientNext ==
    \/ \E c \in Callers, op \in ClientOps : Begin(c, op)
    \/ \E c \in Callers, reply \in ClientReplies : ClientResume(c, reply)
    \/ \E c \in Callers : Finish(c)

ClientSpec == ClientInit /\ [][ClientNext]_vars

----------------------------------------------------------------------------
(* vocabulary of the properties *)

\* the integration whose module registers `tool`, and its declared environment variable
Integration(tool) == IF tool \in TwitterTools THEN "twitter" ELSE "google_docs"
EnvVar(tool) ==
    IF tool \in TwitterTools THEN "TWITTER_BEARER_TOKEN" ELSE "GOOGLE_DOCS_ACCESS_TOKEN"

\* what the store returns to the running invocation (an adapter is supplied)
StoreValue == credentials_get(Integration(call.tool))

\* the invocation returned a mapping
ReturnedMapping == ~Raised(result) /\ IsDict(result.val)

\* the invocation returned an error result whose message is a str
Failed == ReturnedMapping /\ HasError(result.val) /\ IsStr(result.val.v["error"])

\* the fragments of the error message of a failed invocation
ErrorMessage == result.val.v["error"].v

\* msg contains the words w, case-insensitively
HasWords(msg, w) ==
    \E j \in 1..(Len(msg) - Len(w) + 1) :
        \A i \in 1..Len(w) : LowerFragment(msg[j + i - 1]) = w[i]

\* the upstream answered some request of the running invocation with `status`
Answered(status) ==
    \E i \in DOMAIN received :
        received[i].kind = "response" /\ received[i].status_code = status

\* the last outcome received is a response with `status`
LastAnswer(status) ==
    /\ received # <<>>
    /\ received[Len(received)].kind = "response"
    /\ received[Len(received)].status_code = status

----------------------------------------------------------------------------
(* C1 *)

\* C1: in both _get_token functions, when an adapter is supplied and its get() returns
\* a string, that string is the resolved secret whatever the environment holds
\* (GOOGLE_DOCS_ACCESS_TOKEN, TWITTER_BEARER_TOKEN and GOOGLE_SERVICE_ACCOUNT_JSON
\* range over all their values), and it is the secret the client is built with.
C1_StoreStringWins ==
    (pc # "idle" /\ credentials # PyNone /\ IsStr(StoreValue)) =>
        /\ token = Ok(StoreValue)
        /\ client # PyNone => client.token = StoreValue

\* a Google Docs call went upstream with the store's token while both the declared
\* variable and the service-account blob supply another one
C1_Witness ==
    /\ pc = "done"
    /\ call.tool \in GoogleDocsTools
    /\ credentials # PyNone
    /\ credentials_get("google_docs") = Text("tokS")
    /\ getenv("GOOGLE_DOCS_ACCESS_TOKEN") = Text("tokE")
    /\ getenv("GOOGLE_SERVICE_ACCOUNT_JSON") = Text(SA_TOKEN)
    /\ token = Ok(Text("tokS"))
    /\ sent # <<>>
    /\ sent[1].headers["Authorization"] = PyStr(<<"Bearer", "tokS">>)

----------------------------------------------------------------------------
(* C2 *)

----------------------------------------------------------------------------
(* C3 *)

\* C3: for each of the 25 tools, when the resolved secret is absent or the empty
\* string, the invocation returns a mapping with the key error (holding 'Twitter
\* credentials not configured', resp. 'Google Docs credentials not configured') and the
\* key help, and no HTTP request is issued.
C3_NotConfigured ==
    (pc # "idle" /\ ~Raised(token) /\ token.val \in {PyNone, Text("")}) =>
        /\ pc = "done"
        /\ sent = <<>>
        /\ ReturnedMapping
        /\ {"error", "help"} \subseteq DOMAIN result.val.v
        /\ result.val.v["error"] =
              IF call.tool \in TwitterTools
              THEN PyStr(<<"Twitter", "credentials", "not", "configured">>)
              ELSE PyStr(<<"Google", "Docs", "credentials", "not", "configured">>)

\* twitter_post_tweet ran with the empty string as its bearer token
C3_Witness ==
    /\ pc = "done"
    /\ call.tool = "twitter_post_tweet"
    /\ token = Ok(Text(""))
    /\ result = Ok(TwitterNotConfigured)
    /\ sent = <<>>

----------------------------------------------------------------------------
(* C4 *)

\* C4: every invocation of a registered tool returns the uniform result mapping and
\* never raises, for every value the store may return (a string or absent, as its
\* interface says), every setting of the environment variables (any content of
\* GOOGLE_SERVICE_ACCOUNT_JSON included), every well-typed argument and every
\* upstream outcome.
C4_NeverRaises ==
    (pc = "done" /\ (credentials # PyNone => (StoreValue = PyNone \/ IsStr(StoreValue)))) =>
        ReturnedMapping

----------------------------------------------------------------------------
(* C5 *)

\* C5: a 401 response always yields an error result whose message contains "expired"
\* or "invalid" (case-insensitively), in every adapter operation: the identity lookup,
\* the document fetch of insert-at-end and the export included.
C5_Unauthorized ==
    Answered(401) =>
        /\ pc = "done"
        /\ Failed
        /\ \E j \in DOMAIN ErrorMessage : LowerFragment(ErrorMessage[j]) \in {"expired", "invalid"}

\* the identity lookup of twitter_like_tweet was answered 401
C5_Witness ==
    /\ pc = "done"
    /\ call.tool = "twitter_like_tweet"
    /\ Len(sent) = 1
    /\ sent[1].url = <<TWITTER_API_BASE, "/users/me">>
    /\ LastAnswer(401)
    /\ result = Ok(ErrorDict(<<"Invalid", "or", "expired", "Twitter", "token">>))

----------------------------------------------------------------------------
(* C6 *)

\* C6: a 429 response always yields an error result that mentions rate limiting; the
\* Twitter message carries the value of the x-rate-limit-reset header when the upstream
\* supplies it and the literal 'unknown' otherwise.
C6_RateLimited ==
    \A i \in DOMAIN received :
        (received[i].kind = "response" /\ received[i].status_code = 429) =>
            /\ pc = "done"
            /\ Failed
            /\ HasWords(ErrorMessage, <<"rate", "limited.">>)
                    \/ HasWords(ErrorMessage, <<"rate", "limit">>)
            /\ call.tool \in TwitterTools =>
                    ErrorMessage[Len(ErrorMessage)] =
                        IF "x-rate-limit-reset" \in DOMAIN received[i].headers
                        THEN received[i].headers["x-rate-limit-reset"].v[1]
                        ELSE "unknown"

\* a Twitter request was answered 429 with a reset header, and the result carries it
C6_Witness ==
    /\ pc = "done"
    /\ call.tool = "twitter_search_tweets"
    /\ LastAnswer(429)
    /\ received[1].headers = ResetHeaders
    /\ result = Ok(ErrorDict(<<"Rate", "limited.", "Resets", "at", "timestamp:", "1700000000">>))

----------------------------------------------------------------------------
(* C7 *)

\* C7 as stated: in both adapters a 404 response is translated into a dedicated
\* not-found message, not the generic API-error message.
C7_NotFoundInBothAdapters ==
    Answered(404) =>
        /\ pc = "done"
        /\ Failed
        /\ HasWords(ErrorMessage, <<"not", "found">>)
        /\ ~HasWords(ErrorMessage, <<"api", "error">>)

\* C7, amended: the status table is not common to the adapters.  The Google Docs
\* adapter translates a 404 into the dedicated message 'Document not found'; the Twitter
\* adapter has no entry for 404 and reports it with the generic message
\* 'Twitter API error (404): <upstream message>'.
C7_NotFoundPerAdapter ==
    Answered(404) =>
        /\ pc = "done"
        /\ Failed
        /\ IF call.tool \in GoogleDocsTools
           THEN ErrorMessage = <<"Document", "not", "found">>
           ELSE /\ Len(ErrorMessage) >= 6
                /\ SubSeq(ErrorMessage, 1, 6) = <<"Twitter", "API", "error", "(", "404", "):">>

\* both cases happen: a Google Docs call and a Twitter call answered 404
C7_Witness ==
    /\ pc = "done"
    /\ LastAnswer(404)
    /\ \/ call.tool = "google_docs_export_content"
          /\ result = Ok(ErrorDict(<<"Document", "not", "found">>))
       \/ call.tool = "twitter_get_tweet"
          /\ result = Ok(ErrorDict(<<"Twitter", "API", "error", "(", "404", "):",
                                     "Could not find resource">>))

----------------------------------------------------------------------------
(* C8 *)

\* C8: in both adapters a 2xx response with an empty body (status 204) is translated
\* into a generic success marker, a mapping without the key error; it is neither
\* reported as an error nor does reading the body fail.
C8_NoContentIsSuccess ==
    (pc = "done" /\ LastAnswer(204) /\ received[Len(received)].text = EMPTY_BODY) =>
        ReturnedMapping /\ ~HasError(result.val)

----------------------------------------------------------------------------
(* C9 *)

\* C9: a transport timeout yields the result {error: 'Request timed out'} and any
\* other transport failure a result whose error starts with 'Network error: '; a
\* timeout is never reported as a network error, and no transport exception reaches
\* the caller.
C9_TransportFailures ==
    \A i \in DOMAIN received :
        received[i].kind = "exception" =>
            /\ pc = "done"
            /\ result = Ok(ErrorDict(IF received[i].exc \in TimeoutException
                                     THEN <<"Request", "timed", "out">>
                                     ELSE <<"Network", "error:", received[i].exc>>))

\* the second request of twitter_like_tweet, after the identity lookup, timed out
C9_Witness ==
    /\ pc = "done"
    /\ call.tool = "twitter_like_tweet"
    /\ Len(received) = 2
    /\ received[2] = Failure("ReadTimeout")
    /\ result = Ok(ErrorDict(<<"Request", "timed", "out">>))

----------------------------------------------------------------------------
(* C10 *)

\* requests_json is not the text of a JSON array
NotJsonArray(text) ==
    LET Parsed(requests) == Raised(requests) \/ ~IsList(requests.val)
    IN  Parsed(json_loads(text))

\* the running invocation is a batch update without a JSON array, or a format_text
\* with no formatting option
InputError ==
    \/ call.tool = "google_docs_batch_update" /\ NotJsonArray(call.args.requests_json)
    \/ /\ call.tool = "google_docs_format_text"
       /\ \A option \in {"bold", "italic", "underline", "font_size_pt", "foreground_color_red",
                         "foreground_color_green", "foreground_color_blue"} :
                call.args[option] = PyNone

\* C10: with a credential configured, a batch update whose requests payload is not
\* valid JSON or is valid JSON that is not an array, and a format_text call with no
\* formatting option, each return a result with the key error and issue no HTTP request.
C10_InputErrors ==
    (pc # "idle" /\ ~Raised(token) /\ Truthy(token.val) /\ InputError) =>
        /\ pc = "done"
        /\ sent = <<>>
        /\ Failed

\* a batch update was given a JSON object, with a token configured
C10_Witness ==
    /\ pc = "done"
    /\ call.tool = "google_docs_batch_update"
    /\ call.args.requests_json = JSON_EMPTY_OBJECT
    /\ token = Ok(Text("tokE"))
    /\ sent = <<>>
    /\ result = Ok(ErrorDict(<<"requests_json", "must", "be", "a", "JSON", "array",
                               "of", "request", "objects">>))

----------------------------------------------------------------------------
(* C11, C12, C13 *)

\* the max_results parameter of the request the running invocation issued
SentMaxResults == sent[Len(sent)].params["max_results"]

\* C11: search_tweets sends max(10, min(max_results, 100)) for every integer
\* max_results: the value sent lies in 10..100 (5 is sent as 10), and a value already
\* in 10..100 is sent unchanged.
C11_SearchClamp ==
    (call.tool = "twitter_search_tweets" /\ sent # <<>>) =>
        /\ SentMaxResults = PyInt(IF call.args.max_results < 10 THEN 10
                                  ELSE IF call.args.max_results > 100 THEN 100
                                  ELSE call.args.max_results)
        /\ SentMaxResults.v \in 10..100

\* search_tweets(max_results=5) went upstream with max_results=10
C11_Witness ==
    /\ call.tool = "twitter_search_tweets"
    /\ call.args.max_results = 5
    /\ Len(sent) = 1
    /\ sent[1].params["max_results"] = PyInt(10)

C13_WithinDocumentedRange ==
    sent # <<>> =>
        /\ call.tool \in {"twitter_get_user_tweets", "twitter_get_mentions"} =>
                SentMaxResults.v \in 5..100
        /\ call.tool \in {"twitter_get_followers", "twitter_get_following"} =>
                SentMaxResults.v \in 1..1000

----------------------------------------------------------------------------
(* C14 *)

\* the last outcome received is a 200 or 201 response whose body is one of `texts`
LastBodyIn(texts) ==
    /\ received # <<>>
    /\ received[Len(received)].kind = "response"
    /\ received[Len(received)].status_code \in {200, 201}
    /\ received[Len(received)].text \in texts

\* the occurrences the upstream reports in a batchUpdate body, summed over its replies
ReportedOccurrences(text) ==
    CASE text = GD_REPLIES -> 2
      [] text = GD_REPLIES_MIXED -> 1 + 0 + 0 + 2
      [] OTHER -> 0

\* C14: when the upstream batch update succeeds, google_docs_replace_all_text returns
\* occurrences_replaced equal to the sum of replaceAllText.occurrencesChanged over all
\* the entries of the reply list (0 without replies or without the field), together
\* with the document_id, find_text and replace_text of the call; a document with two
\* occurrences gives occurrences_replaced = 2.
C14_OccurrencesReplaced ==
    (/\ pc = "done"
     /\ call.tool = "google_docs_replace_all_text"
     /\ LastBodyIn({GD_REPLIES, GD_REPLIES_MIXED, GD_DOC, JSON_EMPTY_OBJECT})) =>
        result = Ok(PyDict([document_id |-> Text(call.args.document_id),
                            find_text |-> Text(call.args.find_text),
                            replace_text |-> Text(call.args.replace_text),
                            occurrences_replaced |->
                                PyInt(ReportedOccurrences(received[Len(received)].text))]))

\* replace_all_text(find_text="{{Name}}", replace_text="Ada") on two occurrences
C14_Witness ==
    /\ pc = "done"
    /\ call.tool = "google_docs_replace_all_text"
    /\ call.args.find_text = "{{Name}}"
    /\ call.args.replace_text = "Ada"
    /\ LastBodyIn({GD_REPLIES})
    /\ ~HasError(result.val)
    /\ result.val.v["occurrences_replaced"] = PyInt(2)

----------------------------------------------------------------------------
(* C15 *)

\* the id the storing upstream gave to the document it created last
LastDocId == DocId(Len(upstream.documents))

\* C15: with a credential configured and an upstream that stores documents faithfully,
\* google_docs_create_document(title=T) returns a document_id d, the title T and the
\* document_url built from d; a following google_docs_get_document(d) returns a
\* document whose title is T; for every title T.
C15_RoundTrip ==
    /\ (pc = "done" /\ call.tool = "google_docs_create_document") =>
            /\ upstream.documents # <<>>
            /\ upstream.documents[Len(upstream.documents)] = call.args.title
            /\ result = Ok(PyDict([document_id |-> Text(LastDocId),
                                   title |-> Text(call.args.title),
                                   document_url |-> PyStr(<<"https://docs.google.com/document/d/",
                                                            LastDocId, "/edit">>)]))
    /\ (/\ pc = "done"
        /\ call.tool = "google_docs_get_document"
        /\ previous.call.tool = "google_docs_create_document"
        /\ previous.result.val.v["document_id"] = Text(call.args.document_id)) =>
            /\ ReturnedMapping
            /\ ~HasError(result.val)
            /\ "title" \in DOMAIN result.val.v
            /\ result.val.v["title"] = Text(previous.call.args.title)

\* the second document, created with the title "Q3 plan", was read back
C15_Witness ==
    /\ pc = "done"
    /\ call.tool = "google_docs_get_document"
    /\ call.args.document_id = "d2"
    /\ previous.call.tool = "google_docs_create_document"
    /\ previous.call.args.title = "Q3 plan"
    /\ previous.result.val.v["document_id"] = Text("d2")
    /\ result.val.v["title"] = Text("Q3 plan")

----------------------------------------------------------------------------
(* C16 *)

ReadTools == {"google_docs_get_document", "twitter_get_user", "twitter_get_tweet"}

\* the second of two equal reads in a row, with the same credential, has returned
SecondRead ==
    /\ pc = "done"
    /\ call.tool \in ReadTools
    /\ previous.call = call
    /\ previous.token = token

\* C16: calling get_document, get_user or get_tweet twice with the same id, the same
\* credential and no upstream mutation in between issues the same single request each
\* time, changes no local or upstream state, and yields identical payloads.
C16_ReadsIdempotent ==
    /\ [](SecondRead => /\ Len(sent) = 1
                        /\ sent = previous.sent
                        /\ result = previous.result)
    /\ [][(call.tool \in ReadTools \/ call'.tool \in ReadTools) =>
            UNCHANGED <<environ, credentials, upstream>>]_vars

\* twitter_get_tweet returned the same tweet twice
C16_Witness ==
    /\ SecondRead
    /\ call.tool = "twitter_get_tweet"
    /\ ~HasError(result.val)
    /\ result = previous.result
    /\ "data" \in DOMAIN result.val.v

----------------------------------------------------------------------------
(* C17 *)

\* the store of the invoked tool's integration returned neither None nor a str
StoreTypeMismatch ==
    /\ pc # "idle"
    /\ credentials # PyNone
    /\ StoreValue # PyNone
    /\ ~IsStr(StoreValue)

\* C17: when a supplied store returns, for the integration, a value that is neither
\* absent nor a string, credential resolution fails with a type-mismatch error: the
\* value is not coerced, the environment is not read in its place, no client is built,
\* and the invocation issues no HTTP request.
C17_TypeMismatch ==
    StoreTypeMismatch =>
        /\ token = Raise("TypeError")
        /\ pc = "done"
        /\ result = Raise("TypeError")
        /\ client = PyNone
        /\ sent = <<>>

\* the store returned an integer for twitter while TWITTER_BEARER_TOKEN holds a token
C17_Witness ==
    /\ StoreTypeMismatch
    /\ call.tool = "twitter_get_tweet"
    /\ StoreValue = PyInt(42)
    /\ Truthy(getenv("TWITTER_BEARER_TOKEN"))
    /\ token = Raise("TypeError")
    /\ sent = <<>>

----------------------------------------------------------------------------
(* C18 *)

\* the running invocation failed: no credential configured, an input error, a transport
\* failure, or an upstream response outside 2xx
InvocationFailed ==
    \/ ~Truthy(token.val)
    \/ InputError
    \/ \E i \in DOMAIN received :
          \/ received[i].kind = "exception"
          \/ received[i].kind = "response" /\ received[i].status_code \notin 200..299

\* C18: once the credential is resolved, a tool result contains the key error if and
\* only if the invocation failed (credential not configured, input error, transport
\* error or an upstream response outside 2xx): every invocation whose upstream calls
\* all returned 2xx yields a result without error, and every failed one a result with it.
C18_ErrorDiscriminates ==
    (pc = "done" /\ ~Raised(token)) =>
        /\ ReturnedMapping
        /\ HasError(result.val) <=> InvocationFailed

----------------------------------------------------------------------------
(* C19 *)

\* the upstream answered the tweet with 200 or 201 and a JSON object
TweetAccepted ==
    /\ pc = "done"
    /\ call.tool = "twitter_post_tweet"
    /\ Len(received) = 1
    /\ received[1].kind = "response"
    /\ received[1].status_code \in {200, 201}
    /\ ~Raised(response_json(received[1]))
    /\ IsDict(response_json(received[1]).val)

\* data.<key> of the payload the upstream answered with, None when it has none
PayloadData(key) == DictGet(DataOf(response_json(received[1]).val).v, key, PyNone)

\* C19: twitter_post_tweet sends no reply field when reply_to is "" and sends a
\* non-empty reply_to as reply.in_reply_to_tweet_id; when the upstream accepts the tweet
\* (200 or 201) the result has no error, success = true, and tweet_id and text equal
\* to data.id and data.text of the upstream payload.
C19_PostTweet ==
    /\ (call.tool = "twitter_post_tweet" /\ sent # <<>>) =>
            /\ Len(sent) = 1
            /\ sent[1].method = "POST"
            /\ sent[1].url = <<TWITTER_API_BASE, "/tweets">>
            /\ sent[1].json =
                  IF call.args.reply_to = "" THEN [text |-> Text(call.args.text)]
                  ELSE [text |-> Text(call.args.text),
                        reply |-> [in_reply_to_tweet_id |-> Text(call.args.reply_to)]]
    /\ TweetAccepted =>
            /\ ReturnedMapping
            /\ ~HasError(result.val)
            /\ result.val.v = [success |-> PyBool(TRUE), tweet_id |-> PayloadData("id"),
                               text |-> PayloadData("text")]
            /\ received[1].text = TW_DATA =>
                    /\ result.val.v["tweet_id"] = Text("42")
                    /\ result.val.v["text"] = Text("hello")

\* a reply was accepted with 201 and the tweet's id and text came back
C19_Witness ==
    /\ TweetAccepted
    /\ call.args.reply_to = "t0"
    /\ sent[1].json.reply = [in_reply_to_tweet_id |-> Text("t0")]
    /\ received[1].status_code = 201
    /\ received[1].text = TW_DATA
    /\ result.val.v["tweet_id"] = Text("42")

----------------------------------------------------------------------------
(* C20 *)

\* the CredentialSpec that declares the integration of `tool`
CredentialSpecOf(tool) ==
    IF tool \in TwitterTools THEN TWITTER_CREDENTIALS["twitter"]
    ELSE INTEGRATION_CREDENTIALS["google_docs"]

\* the names a CredentialSpec declares
DeclaredTools(cs) == {cs.tools[i] : i \in DOMAIN cs.tools}

\* C20: the tool names each register_tools registers are the tools list of the
\* integration's CredentialSpec (15 twitter_* names, 10 google_docs_* names), every
\* tool the host invokes is declared under its name, and the environment variable a
\* resolver reads first is the CredentialSpec's env_var.
C20_SpecsMatchRegistration ==
    /\ DeclaredTools(TWITTER_CREDENTIALS["twitter"]) = TwitterTools
    /\ Len(TWITTER_CREDENTIALS["twitter"].tools) = 15
    /\ Cardinality(TwitterTools) = 15
    /\ DeclaredTools(INTEGRATION_CREDENTIALS["google_docs"]) = GoogleDocsTools
    /\ Len(INTEGRATION_CREDENTIALS["google_docs"].tools) = 10
    /\ Cardinality(GoogleDocsTools) = 10
    /\ pc # "idle" =>
          /\ call.tool \in DeclaredTools(CredentialSpecOf(call.tool))
          /\ (credentials = PyNone /\ Truthy(getenv(CredentialSpecOf(call.tool).env_var))) =>
                token = Ok(getenv(CredentialSpecOf(call.tool).env_var))

\* twitter_get_mentions, the last name declared, ran with the token of the declared
\* variable; the other variables are unset
C20_Witness ==
    /\ pc = "done"
    /\ call.tool = "twitter_get_mentions"
    /\ call.tool = TWITTER_CREDENTIALS["twitter"].tools[15]
    /\ credentials = PyNone
    /\ token = Ok(getenv(TWITTER_CREDENTIALS["twitter"].env_var))
    /\ Truthy(token.val)
    /\ sent # <<>>

----------------------------------------------------------------------------
(* C21 *)

IsIdentityRequest(req) == req.method = "GET" /\ req.url = <<TWITTER_API_BASE, "/users/me">>

\* `req` is a request under /users/{id}, as the identity-requiring operations issue
ForUser(req, id) == SubSeq(req.url, 1, 3) = <<TWITTER_API_BASE, "/users/", id.v[1]>>

\* the first answer the call of `thread` received is an error result of the instance
IdentityRefused(thread) ==
    /\ thread.replies # <<>>
    /\ thread.replies[1].kind = "response"
    /\ HasError(TwitterClient_handle_response(thread.replies[1]).val)

\* C21: within one _TwitterClient, a call issues the identity request exactly when it
\* is an identity-requiring operation called while no id is cached; a call that finds
\* an id cached issues its own request only, for that id; a call whose identity
\* request succeeds leaves an id cached and goes on with the id it was given; and a
\* call whose identity request yields an error result returns exactly that result
\* and issues no request of its own.
C21_IdentityLazyCached ==
    \A c \in Callers :
        LET thread == shared.threads[c] IN
        thread.pc # "idle" =>
            /\ (\E i \in DOMAIN thread.sent : IsIdentityRequest(thread.sent[i]))
                    <=> (thread.op \in IdentityOps /\ thread.cached = PyNone)
            /\ (thread.op \in IdentityOps /\ thread.cached # PyNone) =>
                    /\ Len(thread.sent) = 1
                    /\ ForUser(thread.sent[1], thread.cached)
            /\ (thread.op \in IdentityOps /\ thread.cached = PyNone) =>
                    /\ IsIdentityRequest(thread.sent[1])
                    /\ \A i \in 2..Len(thread.sent) : ~IsIdentityRequest(thread.sent[i])
                    /\ IdentityRefused(thread) =>
                            /\ thread.pc = "done"
                            /\ Len(thread.sent) = 1
                            /\ thread.out = TwitterClient_handle_response(thread.replies[1])
                    /\ (thread.replies # <<>> /\ thread.replies[1].kind = "response"
                        /\ ~IdentityRefused(thread)) =>
                            /\ shared.self.me_id # PyNone
                            /\ Len(thread.sent) = 2
                            /\ ForUser(thread.sent[2],
                                       response_json(thread.replies[1]).val.v["data"].v["id"])

\* a second like on the instance went out for the cached id, without an identity request
C21_Witness ==
    \E c \in Callers :
        /\ shared.threads[c].pc = "done"
        /\ shared.threads[c].op = "like_tweet"
        /\ shared.threads[c].cached = Text("43")
        /\ Len(shared.threads[c].sent) = 1
        /\ shared.threads[c].sent[1].url = <<TWITTER_API_BASE, "/users/", "43", "/likes">>
        /\ Len(shared.requests) = 3
        /\ IsIdentityRequest(shared.requests[1].req)

----------------------------------------------------------------------------
(* C22 *)

\* the running invocation is an insert_text that got as far as an HTTP request
InsertTextRuns == call.tool = "google_docs_insert_text" /\ sent # <<>>

\* `req` is a batchUpdate of d1 carrying exactly one insertText of the text at index i
IsInsertAt(req, i) ==
    /\ req.method = "POST"
    /\ req.url = <<GOOGLE_DOCS_API_BASE, "/documents/", call.args.document_id, ":batchUpdate">>
    /\ req.json.requests =
          PyList(<<PyDict([insertText |-> PyDict([location |-> PyDict("index" :> PyInt(i)),
                                                  text |-> Text(call.args.text)])])>>)

\* what the fetch of the document yielded, once it has been answered
Fetched == GoogleDocsClient_handle_response(received[1])

\* the fetch was answered with a document: a JSON object without the key error
FetchedDocument ==
    /\ received # <<>>
    /\ received[1].kind = "response"
    /\ ~Raised(Fetched)
    /\ IsDict(Fetched.val)
    /\ ~HasError(Fetched.val)

\* C22: insert_text without an index first fetches the document; when the fetch yields
\* an error result that result is returned and no batchUpdate is issued; when it yields
\* the document, exactly one batchUpdate follows, with one insertText at (endIndex of
\* the last body content element) - 1, or at 1 when the body has no content. With an
\* explicit index, 0 included, only the batchUpdate is issued, at that index.
C22_InsertTextSteps ==
    InsertTextRuns =>
        /\ call.args.index # PyNone =>
              /\ Len(sent) = 1
              /\ IsInsertAt(sent[1], call.args.index.v)
        /\ call.args.index = PyNone =>
              /\ sent[1].method = "GET"
              /\ sent[1].url = <<GOOGLE_DOCS_API_BASE, "/documents/", call.args.document_id>>
              /\ (received # <<>> /\ ~FetchedDocument) =>
                    /\ Len(sent) = 1
                    /\ pc = "done"
                    /\ (received[1].kind = "response" /\ ~Raised(Fetched)) => result = Fetched
              /\ FetchedDocument =>
                    /\ Len(sent) = 2
                    /\ IsInsertAt(sent[2], IF received[1].text = GD_DOC THEN 11 ELSE 1)

\* the document was fetched, its last element ends at 12, and the text went in at 11
C22_Witness ==
    /\ InsertTextRuns
    /\ pc = "done"
    /\ call.args.index = PyNone
    /\ FetchedDocument
    /\ received[1].text = GD_DOC
    /\ received[1].status_code = 200
    /\ Len(sent) = 2
    /\ IsInsertAt(sent[2], 11)
    /\ ReturnedMapping
    /\ ~HasError(result.val)

----------------------------------------------------------------------------
(* C23 *)

\* the end index the fetch of the running insert_text was answered with
FetchedEnd == CHOOSE n \in 2..MaxEnd : received[1].text = EndBody(n)

\* C23: insert_text without an index is not atomic: whatever another writer does to the
\* document between the fetch and the batchUpdate, the batchUpdate is sent with the
\* index computed from the fetch, the document is not fetched again, nothing is
\* retried, and the invocation returns the upstream's answer without an error.
C23_IndexFromEarlierFetch ==
    (InsertTextRuns /\ call.args.index = PyNone) =>
        /\ Len(sent) <= 2
        /\ \A i \in 2..Len(sent) : sent[i].method # "GET"
        /\ received # <<>> =>
              /\ Len(sent) = 2
              /\ IsInsertAt(sent[2], FetchedEnd - 1)
        /\ Len(received) = 2 =>
              /\ pc = "done"
              /\ upstream.landed = <<[index |-> FetchedEnd - 1, end |-> upstream.landed[1].end]>>
              /\ ReturnedMapping
              /\ ~HasError(result.val)

\* the document grew between the fetch and the batchUpdate: the text landed before
\* the place that was the end of the document when it was inserted
C23_Witness ==
    /\ InsertTextRuns
    /\ call.args.index = PyNone
    /\ pc = "done"
    /\ Len(received) = 2
    /\ upstream.landed[1].end > FetchedEnd
    /\ upstream.landed[1].index = FetchedEnd - 1
    /\ upstream.landed[1].index # upstream.landed[1].end - 1
    /\ ~HasError(result.val)

----------------------------------------------------------------------------
(* C24 *)

\* the tools whose method looks the caller's id up before its own request
IdentityTools ==
    {"twitter_like_tweet", "twitter_unlike_tweet", "twitter_retweet", "twitter_undo_retweet",
     "twitter_follow_user", "twitter_unfollow_user"}

\* the i-th request of the running invocation was refused or failed
RequestFailed(i) ==
    \/ received[i].kind = "exception"
    \/ received[i].kind = "response" /\ received[i].status_code \notin 200..299

\* C24: no retries: a tool invocation issues each request at most once and at most two
\* requests in all, the identity lookup then the operation, or the document fetch then
\* the batch update, and one request in every other tool; once a request is answered
\* with an error status or fails at transport level, no further request is issued and
\* the tool returns.
C24_NoRetries ==
    pc # "idle" =>
        /\ Len(sent) <= 2
        /\ Len(sent) = 2 =>
              /\ sent[1] # sent[2]
              /\ \/ /\ call.tool \in IdentityTools
                    /\ IsIdentityRequest(sent[1])
                    /\ ~IsIdentityRequest(sent[2])
                 \/ /\ call.tool = "google_docs_insert_text"
                    /\ call.args.index = PyNone
                    /\ sent[1].method = "GET"
                    /\ sent[2].method = "POST"
        /\ \A i \in DOMAIN received :
              RequestFailed(i) =>
                  /\ i = Len(sent)
                  /\ pc = "done"

\* the identity lookup of twitter_follow_user was answered 500 and the tool returned
\* after that one request
C24_Witness ==
    /\ pc = "done"
    /\ call.tool = "twitter_follow_user"
    /\ Len(sent) = 1
    /\ IsIdentityRequest(sent[1])
    /\ Len(received) = 1
    /\ RequestFailed(1)
    /\ received[1].kind = "response"
    /\ received[1].status_code = 500
    /\ Failed

----------------------------------------------------------------------------
(* C25 *)

\* the parsed content of GOOGLE_SERVICE_ACCOUNT_JSON, when it is set
ServiceAccountBlob == json_loads(getenv("GOOGLE_SERVICE_ACCOUNT_JSON").v[1])

\* C25: the Google Docs resolver without a store: a non-empty GOOGLE_DOCS_ACCESS_TOKEN
\* is the secret whatever the blob holds; when it is unset or empty and
\* GOOGLE_SERVICE_ACCOUNT_JSON is set, the secret is the blob's access_token field, and
\* a blob that is malformed JSON resolves to absent, with the not-configured result,
\* rather than raising.
C25_ServiceAccountFallback ==
    (pc # "idle" /\ call.tool \in GoogleDocsTools /\ credentials = PyNone) =>
        /\ Truthy(getenv("GOOGLE_DOCS_ACCESS_TOKEN")) =>
              token = Ok(getenv("GOOGLE_DOCS_ACCESS_TOKEN"))
        /\ (~Truthy(getenv("GOOGLE_DOCS_ACCESS_TOKEN"))
            /\ getenv("GOOGLE_SERVICE_ACCOUNT_JSON") # PyNone) =>
              /\ ~Raised(token)
              /\ IF Raised(ServiceAccountBlob)
                 THEN /\ token.val = PyNone
                      /\ pc = "done"
                      /\ result = Ok(GoogleDocsNotConfigured)
                 ELSE /\ IsDict(ServiceAccountBlob.val)
                      /\ token.val = DictGet(ServiceAccountBlob.val.v, "access_token", PyNone)

----------------------------------------------------------------------------
(* C26 *)

\* the preset the running create_list sent upstream
SentPreset == sent[1].json.requests.v[1].v["createParagraphBullets"].v["bulletPreset"]

\* C26: google_docs_create_list maps list_type to the upstream preset whatever its
\* case, bullet to BULLET_DISC_CIRCLE_SQUARE and numbered to
\* NUMBERED_DECIMAL_ALPHA_ROMAN, and for every other string it sends the default
\* BULLET_DISC_CIRCLE_SQUARE: with a credential configured the request is always issued.
C26_ListPreset ==
    (pc # "idle" /\ call.tool = "google_docs_create_list" /\ ~Raised(token)
     /\ Truthy(token.val)) =>
        /\ Len(sent) = 1
        /\ sent[1].method = "POST"
        /\ sent[1].url = <<GOOGLE_DOCS_API_BASE, "/documents/", call.args.document_id,
                           ":batchUpdate">>
        /\ Len(sent[1].json.requests.v) = 1
        /\ SentPreset =
              IF call.args.list_type \in {"numbered", "Numbered"}
              THEN Text("NUMBERED_DECIMAL_ALPHA_ROMAN")
              ELSE Text("BULLET_DISC_CIRCLE_SQUARE")

\* a list of type Numbered was created with the numbered preset
C26_Witness ==
    /\ pc = "done"
    /\ call.tool = "google_docs_create_list"
    /\ call.args.list_type = "Numbered"
    /\ Len(sent) = 1
    /\ SentPreset = Text("NUMBERED_DECIMAL_ALPHA_ROMAN")
    /\ ReturnedMapping
    /\ ~HasError(result.val)

----------------------------------------------------------------------------
(* C27 *)

\* caller c is blocked in the identity request and, in the next state, has received a
\* successful answer to it and left its id in the cache
CachesItsAnswer(c) ==
    /\ shared.threads[c].pc = "waiting"
    /\ shared.threads[c].k = "me"
    /\ shared.threads[c].cached = PyNone
    /\ shared'.threads[c].pc = "waiting"
    /\ shared'.threads[c].k = "op"
    /\ ~IdentityRefused(shared'.threads[c])
    /\ shared'.self.me_id = response_json(shared'.threads[c].replies[1]).val.v["data"].v["id"]

\* C27: the identity cache of an instance shared by two callers: the cache changes only
\* when a call that found it empty receives a successful answer to its identity
\* request, and then holds the id of that answer; once set it is never cleared, and
\* no call that began after it was set replaces it.
C27_CacheWrittenByFirstUsers ==
    [][/\ shared'.self.me_id # shared.self.me_id => \E c \in Callers : CachesItsAnswer(c)
       /\ shared.self.me_id # PyNone => shared'.self.me_id # PyNone
       /\ \A c \in Callers :
            (shared'.threads[c].pc # "idle" /\ shared'.threads[c].cached # PyNone) =>
                \A i \in DOMAIN shared'.threads[c].sent :
                    ~IsIdentityRequest(shared'.threads[c].sent[i])]_vars

\* both callers found the cache empty and both issued the identity request; the
\* first answer cached 42 and the second replaced it by 43
C27_Witness ==
    /\ Len(shared.requests) >= 2
    /\ IsIdentityRequest(shared.requests[1].req)
    /\ IsIdentityRequest(shared.requests[2].req)
    /\ shared.requests[1].caller # shared.requests[2].caller
    /\ \A c \in Callers :
          /\ shared.threads[c].pc # "idle"
          /\ shared.threads[c].cached = PyNone
          /\ shared.threads[c].replies # <<>>
    /\ shared.threads[1].replies[1] = Response(200, TW_DATA, NoHeaders)
    /\ shared.threads[2].replies[1] = Response(200, TW_ME_OTHER, NoHeaders)
    /\ shared.self.me_id = Text("43")

----------------------------------------------------------------------------
(* C29 *)

\* in this step the identity request of caller c ends without an id: it yielded an
\* error result or failed at transport level, and the method returns
IdentityFails(c) ==
    /\ shared.threads[c].pc = "waiting"
    /\ shared.threads[c].k = "me"
    /\ shared'.threads[c].pc = "done"

\* in this step caller c calls an identity-requiring operation while nothing is cached
BeginsUncached(c) ==
    /\ shared.threads[c].pc = "idle"
    /\ shared'.threads[c].pc # "idle"
    /\ shared'.threads[c].op \in IdentityOps
    /\ shared.self.me_id = PyNone

\* C29: a failed identity resolution is never cached: the cache is only ever set to
\* the data.id of a successful /users/me answer; an identity request that yields an
\* error result or fails at transport level leaves the cache as it was, and an
\* identity-requiring operation called while the cache is empty issues the identity
\* request, whatever failed before.
C29_FailureNotCached ==
    [][\A c \in Callers :
          /\ IdentityFails(c) =>
                /\ shared'.self.me_id = shared.self.me_id
                /\ \/ Raised(shared'.threads[c].out)
                   \/ HasError(shared'.threads[c].out.val)
          /\ BeginsUncached(c) =>
                /\ shared'.threads[c].pc = "waiting"
                /\ Len(shared'.threads[c].sent) = 1
                /\ IsIdentityRequest(shared'.threads[c].sent[1])
          /\ (shared'.self.me_id # shared.self.me_id) =>
                /\ IsStr(shared'.self.me_id)
                /\ shared'.self.me_id \in {Text("42"), Text("43")}]_vars

\* caller 1 alone used the instance: its first identity request failed, nothing is
\* cached, and its next operation issued the identity request again
C29_Witness ==
    /\ shared.begun = 2
    /\ shared.threads[2].pc = "idle"
    /\ Len(shared.requests) = 2
    /\ \A i \in 1..2 : shared.requests[i].caller = 1 /\ IsIdentityRequest(shared.requests[i].req)
    /\ shared.self.me_id = PyNone
    /\ shared.threads[1].pc = "waiting"
    /\ shared.threads[1].op = "retweet"

----------------------------------------------------------------------------
(* C28 *)

\* the running invocation succeeded
Succeeded == pc = "done" /\ ReturnedMapping /\ ~HasError(result.val)

\* what the store and the environment give for twitter now
TwitterSecretNow ==
    IF credentials = PyNone THEN Ok(getenv("TWITTER_BEARER_TOKEN"))
    ELSE IF StoreValue # PyNone /\ ~IsStr(StoreValue) THEN Raise("TypeError")
    ELSE Ok(StoreValue)

----------------------------------------------------------------------------
(* C30 *)

\* the running invocation resolved no usable credential: absent or empty
NoCredential == ~Raised(token) /\ ~Truthy(token.val)

\* C30: credential resolution comes before argument validation in the Google Docs
\* tools: a google_docs_batch_update with malformed or non-array requests_json and a
\* google_docs_format_text with no formatting option return the 'Google Docs
\* credentials not configured' result, with help, when the credential is absent or
\* empty, and the input-error result only when a credential is configured.
C30_CredentialBeforeValidation ==
    (pc # "idle" /\ InputError /\ ~Raised(token)) =>
        /\ pc = "done"
        /\ sent = <<>>
        /\ ReturnedMapping
        /\ IF NoCredential
           THEN /\ result.val = GoogleDocsNotConfigured
                /\ "help" \in DOMAIN result.val.v
                /\ result.val.v["error"] =
                      PyStr(<<"Google", "Docs", "credentials", "not", "configured">>)
           ELSE /\ "help" \notin DOMAIN result.val.v
                /\ result.val.v["error"].v[1] \in {"requests_json", "Invalid", "No"}

\* malformed requests_json was given while GOOGLE_DOCS_ACCESS_TOKEN is empty and no
\* other source holds a credential: the answer is the not-configured result
C30_Witness ==
    /\ pc = "done"
    /\ call.tool = "google_docs_batch_update"
    /\ call.args.requests_json = JSON_MALFORMED
    /\ credentials = PyNone
    /\ getenv("GOOGLE_DOCS_ACCESS_TOKEN") = Text("")
    /\ NoCredential
    /\ result = Ok(GoogleDocsNotConfigured)

====
